---- MODULE Spec2Model ----
(***************************************************************************)
(* Convolens: the conversation analysis engine (app/services/              *)
(* analysis_service.py, analyzer/convolens.py) and the task that runs it   *)
(* (app/tasks.py).                                                         *)
(*                                                                         *)
(* A Python str is a sequence of one-character strings; None is the value  *)
(* None below, which is no str.                                            *)
(***************************************************************************)
EXTENDS Integers, Sequences, FiniteSets, TLC

VARIABLES
    line,            \* get_speaker_from_line_txt: the argument
    line_speaker,    \* get_speaker_from_line_txt: whether it returned, and what
    file,            \* the uploaded file: its extension and content
    speaker_stats,   \* extract_speaker_statistics(file): whether it returned, and what
    texts,           \* extract_text_from_file(file): whether it returned, and what
    graph_pc,        \* calculate_interaction_frequency: "start", "walk", "done"
    graph_todo,      \* ... the lines / items it has still to walk
    graph_walk,      \* ... interactions, speakers_in_convo, last_speaker
    graph_ret,       \* ... what it returned
    conversation_data, \* _calculate_influence_scores: the conversation
    influence,       \* _calculate_influence_scores: whether it returned, and what
    text_content_list, \* the analyzers: the utterances they are given
    hash_seed,       \* the str hash randomisation of the running process
    emotion_ret,     \* analyze_emotions_with_text2emotion: whether it returned, and what
    persuasion_rets, \* calculate_persuasion_scores_heuristic: what each call returned
    tactic_rets,     \* detect_fallacies_and_manipulation_heuristic: what each call returned
    task_pc,         \* run_full_analysis: the step it is at
    file_exists,     \* os.path.exists() of the uploaded file
    db_conversation, \* table conversations: the committed row of the file, if any
    db_analysis_result, \* table analysis_results: the committed row, if any
    conversation,    \* run_full_analysis: the Conversation object of its session
    results_payload, \* run_full_analysis: the sections of the report
    errors_list,     \* run_full_analysis: the errors of the run
    task_ret,        \* run_full_analysis: whether it returned, and what
    api_pc,          \* the request handler: "idle", or the step it is at
    api_count,       \* ... the requests received so far
    api_request,     \* ... the request it handles, or has handled last
    api_local,       \* ... its local variables conversation and task
    api_response,    \* ... its last response
    celery_sent,     \* the messages run_full_analysis.delay() has sent
    engine_calls,    \* the calls of the detectors in progress in one process, or returned
    handlers         \* the request handlers running side by side: their step and locals

lineVars  == <<line, line_speaker>>
fileVars  == <<speaker_stats, texts>>
graphVars == <<graph_pc, graph_todo, graph_walk, graph_ret>>
influenceVars == <<conversation_data, influence>>
analyzerVars == <<text_content_list, hash_seed, emotion_ret, persuasion_rets, tactic_rets>>
taskVars == <<task_pc, file_exists, db_conversation, db_analysis_result, conversation,
              results_payload, errors_list, task_ret>>

apiVars ==
    <<api_pc, api_count, api_request, api_local, api_response, celery_sent>>

concVars == <<engine_calls, handlers>>

vars ==
    <<lineVars, file, fileVars, graphVars, influenceVars, analyzerVars, taskVars, apiVars,
      concVars>>

----------------------------------------------------------------------------
(* Bounds of the model.                                                    *)

\* Longest line enumerated character by character.
MaxLineLen == 5

\* Most lines of a .txt file.
MaxLines == 3

\* Most elements of the message array of a .json file.
MaxItems == 2

\* The lines of the longer .txt conversations.
MaxTurns == 5

\* Most messages of a conversation given to the influence scorer.
MaxMessages == 2

\* Most utterances of a list given to the analyzers.
MaxTexts == 2

\* The iteration orders of a set that the hash randomisation is taken to
\* produce are numbered 0..MaxHashSeed.
MaxHashSeed == 1
\* requests handled in one behaviour
MaxRequests == 2

\* Most calls of the detectors in progress at once in one process.
MaxCalls == 2

\* Request handlers running side by side.
MaxHandlers == 2


----------------------------------------------------------------------------
(* Python values and str methods.                                          *)

None == <<"<None>">>

\* a str literal as the sequence of its characters
Chars(literal) == [p \in 1..Len(literal) |-> SubSeq(literal, p, p)]

Digits == {"0", "1", "2", "3", "4", "5", "6", "7", "8", "9"}

Letters ==
    {"a", "b", "c", "d", "e", "f", "g", "h", "i", "j", "k", "l", "m",
     "n", "o", "p", "q", "r", "s", "t", "u", "v", "w", "x", "y", "z",
     "A", "B", "C", "D", "E", "F", "G", "H", "I", "J", "K", "L", "M",
     "N", "O", "P", "Q", "R", "S", "T", "U", "V", "W", "X", "Y", "Z"}

\* \w of the re module
WordChars == Letters \cup Digits \cup {"_"}

\* \s of the re module, and what str.strip() and str.isspace() look at
Whitespace == {" ", "\t", "\n", "\r"}

\* s[a..b] all in class cls (true of an empty range)
AllIn(s, a, b, cls) == \A p \in a..b : s[p] \in cls

\* str.isdigit(): non-empty and every character a digit
IsDigit(s) == Len(s) > 0 /\ AllIn(s, 1, Len(s), Digits)

\* str.isspace(): non-empty and every character whitespace
IsSpace(s) == Len(s) > 0 /\ AllIn(s, 1, Len(s), Whitespace)

\* str.strip()
Strip(s) ==
    LET keep == {p \in 1..Len(s) : s[p] \notin Whitespace}
    IN  IF keep = {} THEN <<>>
        ELSE LET lo == CHOOSE p \in keep : \A q \in keep : p <= q
                 hi == CHOOSE p \in keep : \A q \in keep : q <= p
             IN  SubSeq(s, lo, hi)

\* Python truth value of a str-or-None
Truthy(v) == v # None /\ v # <<>>

\* position of the first occurrence of character c in s, 0 when absent
Find(s, c) ==
    LET at == {p \in 1..Len(s) : s[p] = c}
    IN  IF at = {} THEN 0 ELSE CHOOSE p \in at : \A q \in at : p <= q

UPPERCASE == Chars("ABCDEFGHIJKLMNOPQRSTUVWXYZ")
LOWERCASE == Chars("abcdefghijklmnopqrstuvwxyz")

LowerChar(c) ==
    IF \E k \in 1..Len(UPPERCASE) : UPPERCASE[k] = c
    THEN LOWERCASE[CHOOSE k \in 1..Len(UPPERCASE) : UPPERCASE[k] = c]
    ELSE c

\* str.lower()
StrLower(s) == [p \in 1..Len(s) |-> LowerChar(s[p])]

Max(S) == CHOOSE x \in S : \A y \in S : y <= x
Min(S) == CHOOSE x \in S : \A y \in S : x <= y

----------------------------------------------------------------------------
(* get_speaker_from_line_txt                                               *)

\* the class [\w\s.-] of the speaker group
NameClass == WordChars \cup Whitespace \cup {".", "-"}

\* len(possible_speaker) < 50
SPEAKER_MAX_LEN == 50

\* Every way r"^\s*([\w\s.-]+?)\s*[:]\s+" matches at the start of s:
\* <<i, j, k>> with s[1..i] the leading \s*, s[i+1..j] the group,
\* s[j+1..k] the \s* after it, s[k+1] the colon and s[k+2] the first
\* character of \s+.
SpeakerPatternMatches(s) ==
    UNION {UNION {{<<i, j, k>> :
                     k \in {k \in j..(Len(s) - 2) :
                              /\ AllIn(s, j + 1, k, Whitespace)
                              /\ s[k + 1] = ":"
                              /\ s[k + 2] \in Whitespace}} :
                  j \in {j \in (i + 1)..Len(s) : AllIn(s, i + 1, j, NameClass)}} :
           i \in {i \in 0..Len(s) : AllIn(s, 1, i, Whitespace)}}

\* group(1) of the match the backtracking matcher finds first among ms: the
\* leading \s* is greedy (longest first), the group is lazy (shortest first).
SpeakerPatternGroup(s, ms) ==
    LET i == Max({m[1] : m \in ms})
        j == Min({m[2] : m \in {x \in ms : x[1] = i}})
    IN  SubSeq(s, i + 1, j)

get_speaker_from_line_txt(s) ==
    LET ms == SpeakerPatternMatches(s) IN
    IF ms # {}
    THEN Strip(SpeakerPatternGroup(s, ms))
    ELSE IF Find(s, ":") # 0
         THEN LET possible_speaker == Strip(SubSeq(s, 1, Find(s, ":") - 1))
              IN  IF Len(possible_speaker) < SPEAKER_MAX_LEN
                     /\ ~IsDigit(possible_speaker)
                  THEN possible_speaker
                  ELSE None
         ELSE None

----------------------------------------------------------------------------
(* Lines: every string over a small alphabet with one character of each    *)
(* class the pattern tells apart, and the two lines of the documentation.  *)

LineAlphabet == {"a", "1", " ", ":", ".", "!"}

RECURSIVE StringsUpTo(_, _)
StringsUpTo(alphabet, n) ==
    IF n = 0 THEN {<<>>}
    ELSE LET shorter == StringsUpTo(alphabet, n - 1)
         IN  shorter \cup {Append(s, c) : s \in {t \in shorter : Len(t) = n - 1},
                                          c \in alphabet}

\* "12: some text"
NumericLine == <<"1", "2", ":", " ", "s", "o", "m", "e", " ", "t", "e", "x", "t">>

\* "Dr. Smith: some text"
DrSmithLine ==
    <<"D", "r", ".", " ", "S", "m", "i", "t", "h", ":", " ",
      "s", "o", "m", "e", " ", "t", "e", "x", "t">>

\* a line as file iteration yields it: with or without its line end
Lines ==
    LET bodies == StringsUpTo(LineAlphabet, MaxLineLen) \cup {NumericLine, DrSmithLine}
    IN  bodies \cup {Append(b, "\n") : b \in bodies}

----------------------------------------------------------------------------
(* Values read from a .json file, each a record of one field named after  *)
(* its Python type: the characters of a str, the number of an int, the     *)
(* elements of a list, and for a dict the function from its keys to their  *)
(* values.                                                                 *)

JStr(s)     == [str |-> s]
JInt(n)     == [int |-> n]
JNull       == [null |-> 0]
JList(xs)   == [list |-> xs]
JDict(f)    == [dict |-> f]

\* type(x).__name__, and the value x holds
TypeOf(x) == CHOOSE k \in DOMAIN x : TRUE
ValOf(x)  == x[TypeOf(x)]

\* key in d and d[key], for a dict d
HasKey(d, key) == key \in DOMAIN ValOf(d)
Item(d, key)   == ValOf(d)[key]

\* bool(x)
JTruthy(x) ==
    CASE TypeOf(x) = "str"  -> ValOf(x) # <<>>
      [] TypeOf(x) = "int"  -> ValOf(x) # 0
      [] TypeOf(x) = "null" -> FALSE
      [] TypeOf(x) = "list" -> ValOf(x) # <<>>
      [] TypeOf(x) = "dict" -> DOMAIN ValOf(x) # {}

DigitOf(d) ==
    CASE d = 0 -> "0" [] d = 1 -> "1" [] d = 2 -> "2" [] d = 3 -> "3"
      [] d = 4 -> "4" [] d = 5 -> "5" [] d = 6 -> "6" [] d = 7 -> "7"
      [] d = 8 -> "8" [] d = 9 -> "9"

RECURSIVE NatToStr(_)
NatToStr(n) ==
    IF n < 10 THEN <<DigitOf(n)>>
    ELSE Append(NatToStr(n \div 10), DigitOf(n % 10))

\* str(x), for the str, int and null values a speaker key holds here
JToStr(x) ==
    CASE TypeOf(x) = "str"  -> ValOf(x)
      [] TypeOf(x) = "int"  ->
            IF ValOf(x) < 0 THEN <<"-">> \o NatToStr(-ValOf(x)) ELSE NatToStr(ValOf(x))
      [] TypeOf(x) = "null" -> <<"N", "o", "n", "e">>

\* sub in s, for two str
Contains(s, sub) ==
    \E p \in 0..(Len(s) - Len(sub)) : SubSeq(s, p + 1, p + Len(sub)) = sub

----------------------------------------------------------------------------
(* The uploaded file. ext is what filename.endswith() tells apart.         *)

TxtFile(lines) ==
    [ext |-> "txt", lines |-> lines, doc |-> JNull, valid |-> TRUE, sniff |-> "none"]

\* valid: whether json.load() parses the file; doc: what it returns
JsonFile(doc) ==
    [ext |-> "json", lines |-> <<>>, doc |-> doc, valid |-> TRUE, sniff |-> "none"]
BadJsonFile ==
    [ext |-> "json", lines |-> <<>>, doc |-> JNull, valid |-> FALSE, sniff |-> "none"]

\* any other extension
OtherFile ==
    [ext |-> "other", lines |-> <<>>, doc |-> JNull, valid |-> TRUE, sniff |-> "none"]

----------------------------------------------------------------------------
(* get_speaker_from_json_item                                              *)

SpeakerKeys == <<"speaker", "user", "author", "name", "user_id">>

RECURSIVE FirstSpeakerKey(_, _)
FirstSpeakerKey(item, k) ==
    IF k > Len(SpeakerKeys) THEN None
    ELSE IF HasKey(item, SpeakerKeys[k]) /\ JTruthy(Item(item, SpeakerKeys[k]))
         THEN JToStr(Item(item, SpeakerKeys[k]))
         ELSE FirstSpeakerKey(item, k + 1)

get_speaker_from_json_item(item) ==
    IF TypeOf(item) = "dict" THEN FirstSpeakerKey(item, 1) ELSE None

----------------------------------------------------------------------------
(* The message array of a JSON document, as each of the three readers      *)
(* finds it: [raised |-> whether an exception left the try block,          *)
(* messages |-> the array].                                                *)

MessagesKeyword == <<"m", "e", "s", "s", "a", "g", "e", "s">>

\* "messages" in data["log"] and isinstance(data["log"]["messages"], list):
\* "ok" with the array, "no" when the condition is false, "raise" when
\* evaluating it raises TypeError
LogMessages(log) ==
    CASE TypeOf(log) = "dict" ->
            IF HasKey(log, "messages") /\ TypeOf(Item(log, "messages")) = "list"
            THEN [is |-> "ok", messages |-> ValOf(Item(log, "messages"))]
            ELSE [is |-> "no", messages |-> <<>>]
      [] TypeOf(log) = "str" ->
            IF Contains(ValOf(log), MessagesKeyword)
            THEN [is |-> "raise", messages |-> <<>>]
            ELSE [is |-> "no", messages |-> <<>>]
      [] TypeOf(log) = "list" ->
            IF \E p \in 1..Len(ValOf(log)) :
                  TypeOf(ValOf(log)[p]) = "str" /\ ValOf(ValOf(log)[p]) = MessagesKeyword
            THEN [is |-> "raise", messages |-> <<>>]
            ELSE [is |-> "no", messages |-> <<>>]
      [] OTHER -> [is |-> "raise", messages |-> <<>>]

\* identify_speakers_from_json, lines 204-220
SpeakerMessages(f) ==
    IF ~f.valid THEN [raised |-> TRUE, messages |-> <<>>]
    ELSE LET data == f.doc IN
         IF TypeOf(data) = "list"
         THEN [raised |-> FALSE, messages |-> ValOf(data)]
         ELSE IF TypeOf(data) = "dict" /\ HasKey(data, "transcript")
                 /\ TypeOf(Item(data, "transcript")) = "list"
         THEN [raised |-> FALSE, messages |-> ValOf(Item(data, "transcript"))]
         ELSE IF TypeOf(data) = "dict" /\ HasKey(data, "log")
         THEN LET lm == LogMessages(Item(data, "log"))
              IN  [raised |-> lm.is = "raise", messages |-> lm.messages]
         ELSE [raised |-> FALSE, messages |-> <<>>]

\* extract_text_from_file, lines 336-352
TextMessages(f) ==
    IF ~f.valid THEN [raised |-> TRUE, messages |-> <<>>]
    ELSE LET data == f.doc IN
         IF TypeOf(data) = "list"
         THEN [raised |-> FALSE, messages |-> ValOf(data)]
         ELSE IF TypeOf(data) = "dict" /\ HasKey(data, "transcript")
                 /\ TypeOf(Item(data, "transcript")) = "list"
         THEN [raised |-> FALSE, messages |-> ValOf(Item(data, "transcript"))]
         ELSE IF TypeOf(data) = "dict" /\ HasKey(data, "log")
         THEN LET lm == LogMessages(Item(data, "log"))
              IN  [raised |-> lm.is = "raise", messages |-> lm.messages]
         ELSE [raised |-> FALSE, messages |-> <<>>]

\* calculate_interaction_frequency, lines 98-115
GraphMessages(f) ==
    IF ~f.valid THEN [raised |-> TRUE, messages |-> <<>>]
    ELSE LET data == f.doc IN
         IF TypeOf(data) = "list"
         THEN [raised |-> FALSE, messages |-> ValOf(data)]
         ELSE IF TypeOf(data) = "dict" /\ HasKey(data, "transcript")
                 /\ TypeOf(Item(data, "transcript")) = "list"
         THEN [raised |-> FALSE, messages |-> ValOf(Item(data, "transcript"))]
         ELSE IF TypeOf(data) = "dict" /\ HasKey(data, "log")
         THEN LET lm == LogMessages(Item(data, "log"))
              IN  [raised |-> lm.is = "raise", messages |-> lm.messages]
         ELSE [raised |-> FALSE, messages |-> <<>>]

----------------------------------------------------------------------------
(* collections.Counter, as the (key, count) pairs in insertion order       *)

CounterKeys(c) == [p \in 1..Len(c) |-> c[p].key]

\* (mutant) a key seen again is not counted again
CounterAddOnce(c, key) ==
    IF \E p \in 1..Len(c) : c[p].key = key
    THEN c
    ELSE Append(c, [key |-> key, count |-> 1])

CounterAdd(c, key) ==
    IF \E p \in 1..Len(c) : c[p].key = key
    THEN [p \in 1..Len(c) |->
            IF c[p].key = key THEN [key |-> key, count |-> c[p].count + 1] ELSE c[p]]
    ELSE Append(c, [key |-> key, count |-> 1])

\* Counter(xs)
RECURSIVE Counter(_)
Counter(xs) ==
    IF xs = <<>> THEN <<>>
    ELSE CounterAdd(Counter(SubSeq(xs, 1, Len(xs) - 1)), xs[Len(xs)])

\* sum(c.values())
RECURSIVE CounterTotal(_)
CounterTotal(c) ==
    IF c = <<>> THEN 0 ELSE c[1].count + CounterTotal(Tail(c))

\* dict(c)
CounterDict(c) ==
    [key \in {c[p].key : p \in 1..Len(c)} |->
        (CHOOSE q \in {c[p] : p \in 1..Len(c)} : q.key = key).count]

\* the elements of xs that are true, in order
RECURSIVE SelectTruthy(_)
SelectTruthy(xs) ==
    IF xs = <<>> THEN <<>>
    ELSE IF Truthy(Head(xs)) THEN <<Head(xs)>> \o SelectTruthy(Tail(xs))
         ELSE SelectTruthy(Tail(xs))

----------------------------------------------------------------------------
(* Speaker statistics                                                      *)

\* the list speakers of identify_speakers_from_txt
TxtSpeakers(f) ==
    SelectTruthy([p \in 1..Len(f.lines) |-> get_speaker_from_line_txt(f.lines[p])])

identify_speakers_from_txt(f) == Counter(TxtSpeakers(f))

\* the list speakers of identify_speakers_from_json
JsonSpeakers(f) ==
    LET ms == SpeakerMessages(f).messages
    IN  SelectTruthy([p \in 1..Len(ms) |-> get_speaker_from_json_item(ms[p])])

identify_speakers_from_json(f) ==
    IF SpeakerMessages(f).raised THEN <<>> ELSE Counter(JsonSpeakers(f))

(* .csv files.  lines holds the lines of the file without their line ends; *)
(* sniff is what csv.Sniffer().has_header() does on the head of the file:  *)
(* "header", "no_header", or "error" when it raises csv.Error.             *)

CsvFile(lines, sniff) ==
    [ext |-> "csv", lines |-> lines, doc |-> JNull, valid |-> TRUE, sniff |-> sniff]

\* a .csv file that cannot be opened or decoded
BadCsvFile ==
    [ext |-> "csv", lines |-> <<>>, doc |-> JNull, valid |-> FALSE, sniff |-> "error"]

\* a line at which the reader raises (a field beyond the field size limit,
\* bytes that are no UTF-8)
BAD_ROW == <<"<csv.Error>">>

\* the cells of a line without quotes
RECURSIVE SplitCells(_)
SplitCells(s) ==
    IF Find(s, ",") = 0 THEN <<s>>
    ELSE <<SubSeq(s, 1, Find(s, ",") - 1)>> \o SplitCells(SubSeq(s, Find(s, ",") + 1, Len(s)))

\* what csv.reader yields for a line: [] for an empty line
CsvRow(ln) == IF ln = <<>> THEN <<>> ELSE SplitCells(ln)

\* the lines csv.reader has read without raising
ReaderRows(lines) == [p \in 1..Len(lines) |-> CsvRow(lines[p])]

\* None where a list of field names is expected
NoFieldnames == <<None>>

\* if fieldnames:
HasFieldnames(fieldnames) == fieldnames # NoFieldnames /\ fieldnames # <<>>

\* csv.DictReader: the first line gives the field names (None for a file
\* without lines), the empty lines behind it are left out
DictReaderFieldnames(lines) == IF lines = <<>> THEN NoFieldnames ELSE CsvRow(lines[1])
DictReaderRows(lines) ==
    IF lines = <<>> THEN <<>>
    ELSE SelectSeq(ReaderRows(Tail(lines)), LAMBDA row : row # <<>>)

\* row[col] of a row of DictReader: the last field of that name wins, and a
\* field beyond the end of the line is None
DictGet(fieldnames, row, col) ==
    LET last == Max({k \in 1..Len(fieldnames) : fieldnames[k] = col})
    IN  IF last > Len(row) THEN None ELSE row[last]

\* the first field name that is, whatever its case, one of col_names
ActualCol(fieldnames, col_names) ==
    LET named == {k \in 1..Len(fieldnames) :
                     \E n \in 1..Len(col_names) :
                        StrLower(col_names[n]) = StrLower(fieldnames[k])}
    IN  IF named = {} THEN None ELSE fieldnames[Min(named)]

SPEAKER_COL_NAMES ==
    <<Chars("speaker"), Chars("user"), Chars("author"), Chars("speaker_id"),
      Chars("from"), Chars("name")>>

TEXT_COL_NAMES ==
    <<Chars("text"), Chars("message"), Chars("content"), Chars("utterance"),
      Chars("line"), Chars("transcript"), Chars("msg")>>

\* len(s) < 50 and not s.isdigit() and ":" not in s
LooksLikeSpeaker(possible_speaker) ==
    /\ Len(possible_speaker) < SPEAKER_MAX_LEN
    /\ ~IsDigit(possible_speaker)
    /\ Find(possible_speaker, ":") = 0

\* str() of a list of str without quotes in them
RECURSIVE ReprCells(_)
ReprCells(cells) ==
    IF cells = <<>> THEN <<>>
    ELSE <<"'">> \o Head(cells) \o <<"'">>
         \o (IF Len(cells) > 1 THEN <<",", " ">> ELSE <<>>) \o ReprCells(Tail(cells))

\* str(row[list(row.keys())[0]]) of a row of DictReader: the first field, or
\* with no field name at all the list kept under the rest key None
FirstValueStr(fieldnames, row) ==
    IF fieldnames = <<>> THEN <<"[">> \o ReprCells(row) \o <<"]">>
    ELSE IF DictGet(fieldnames, row, fieldnames[1]) = None THEN Chars("None")
    ELSE DictGet(fieldnames, row, fieldnames[1])

\* row: the cells of the line; fieldnames: those of the DictReader that made
\* the row a dict, NoFieldnames for the list of a plain reader and for the
\* dict of a file without lines (which has no row)
get_speaker_from_csv_row(row, fieldnames) ==
    LET actual_speaker_col ==
            IF HasFieldnames(fieldnames) THEN ActualCol(fieldnames, SPEAKER_COL_NAMES)
            ELSE None
    IN  IF Truthy(actual_speaker_col)
           /\ Truthy(DictGet(fieldnames, row, actual_speaker_col))
        THEN DictGet(fieldnames, row, actual_speaker_col)
        ELSE IF ~Truthy(actual_speaker_col) /\ fieldnames = NoFieldnames /\ row # <<>>
        THEN IF LooksLikeSpeaker(Strip(row[1])) THEN Strip(row[1]) ELSE None
        ELSE IF fieldnames # NoFieldnames /\ ~Truthy(actual_speaker_col)
        THEN IF LooksLikeSpeaker(Strip(FirstValueStr(fieldnames, row)))
             THEN Strip(FirstValueStr(fieldnames, row))
             ELSE None
        ELSE None

\* (mutant) a sniffer that raises counts as a sniffer that finds no header
HasHeaderSniffed(f) == f.sniff = "header"

\* lines 237-243
SpeakersHasHeader(f) == f.sniff # "no_header"

\* the list speakers of identify_speakers_from_csv
CsvSpeakers(f) ==
    IF SpeakersHasHeader(f)
    THEN LET fieldnames == DictReaderFieldnames(f.lines)
             rows == DictReaderRows(f.lines)
         IN  IF ~HasFieldnames(fieldnames) THEN <<>>
             ELSE SelectTruthy([p \in 1..Len(rows) |->
                                   get_speaker_from_csv_row(rows[p], fieldnames)])
    ELSE LET rows == ReaderRows(f.lines)
         IN  SelectTruthy([p \in 1..Len(rows) |-> get_speaker_from_csv_row(rows[p], NoFieldnames)])

\* the file cannot be read, or one of its lines cannot
SpeakersRaise(f) == ~f.valid \/ \E p \in 1..Len(f.lines) : f.lines[p] = BAD_ROW

\* an exception anywhere gives the empty Counter
identify_speakers_from_csv(f) ==
    IF SpeakersRaise(f) THEN <<>> ELSE Counter(CsvSpeakers(f))

UNSUPPORTED_ERROR == "Unsupported file type for speaker statistics"
NO_SPEAKERS_ERROR ==
    "Could not identify any speakers or file might be empty/misformatted for speakers."

SpeakerStats(speaker_counts) ==
    [total_messages            |-> CounterTotal(speaker_counts),
     speakers_found            |-> CounterKeys(speaker_counts),
     message_count_per_speaker |-> CounterDict(speaker_counts)]

extract_speaker_statistics(f) ==
    IF f.ext \notin {"txt", "json", "csv"}
    THEN [error |-> UNSUPPORTED_ERROR]
    ELSE LET speaker_counts ==
                 CASE f.ext = "txt"  -> identify_speakers_from_txt(f)
                   [] f.ext = "json" -> identify_speakers_from_json(f)
                   [] f.ext = "csv"  -> identify_speakers_from_csv(f)
         IN  IF speaker_counts = <<>>
             THEN [error |-> NO_SPEAKERS_ERROR]
             ELSE SpeakerStats(speaker_counts)

----------------------------------------------------------------------------
(* extract_text_from_file                                                  *)

\* Every way r"^\s*([\w\s.-]+?)\s*[:]\s*(.*)" matches at the start of s:
\* <<i, j, k>> as in SpeakerPatternMatches, s[k+1] the colon; what follows
\* the colon always matches \s*(.*), s holding no line end after strip().
TextPatternMatches(s) ==
    UNION {UNION {{<<i, j, k>> :
                     k \in {k \in j..(Len(s) - 1) :
                              /\ AllIn(s, j + 1, k, Whitespace)
                              /\ s[k + 1] = ":"}} :
                  j \in {j \in (i + 1)..Len(s) : AllIn(s, i + 1, j, NameClass)}} :
           i \in {i \in 0..Len(s) : AllIn(s, 1, i, Whitespace)}}

\* group(2) of a match of ms: what is left after the colon and the (greedy)
\* \s* behind it
TextPatternGroup2(s, ms) ==
    LET colon == (CHOOSE m \in ms : TRUE)[3] + 1
        rest  == SubSeq(s, colon + 1, Len(s))
        text  == {p \in 1..Len(rest) : rest[p] \notin Whitespace}
    IN  IF text = {} THEN <<>> ELSE SubSeq(rest, Min(text), Len(rest))

\* what one line of a .txt file adds to texts: a list of no or one str
TxtLineTexts(ln) ==
    LET line_content == Strip(ln)
        ms           == TextPatternMatches(line_content)
    IN  IF line_content = <<>> THEN <<>>
        ELSE IF ms # {}
             THEN IF Strip(TextPatternGroup2(line_content, ms)) # <<>>
                  THEN <<Strip(TextPatternGroup2(line_content, ms))>>
                  ELSE <<>>
             ELSE <<line_content>>

TextKeys == <<"text", "message", "line", "content", "utterance", "msg">>

\* a search of the text keys that stops at the first key holding a str, blank
\* or not
RECURSIVE FirstStrTextKey(_, _)
FirstStrTextKey(item, k) ==
    IF k > Len(TextKeys) THEN <<>>
    ELSE IF HasKey(item, TextKeys[k]) /\ TypeOf(Item(item, TextKeys[k])) = "str"
         THEN <<Strip(ValOf(Item(item, TextKeys[k])))>>
         ELSE FirstStrTextKey(item, k + 1)

\* the for/break over the text keys: a list of no or one str
RECURSIVE FirstTextKey(_, _)
FirstTextKey(item, k) ==
    IF k > Len(TextKeys) THEN <<>>
    ELSE IF /\ HasKey(item, TextKeys[k])
            /\ TypeOf(Item(item, TextKeys[k])) = "str"
            /\ Strip(ValOf(Item(item, TextKeys[k]))) # <<>>
         THEN <<Strip(ValOf(Item(item, TextKeys[k])))>>
         ELSE FirstTextKey(item, k + 1)

\* d.get(key): None (here JNull) when the key is absent
JGet(d, key) == IF HasKey(d, key) THEN Item(d, key) ELSE JNull

\* item["response"]["output"] and item["response"]["output"]["generic"][0]
WatsonOutput(item)   == Item(Item(item, "response"), "output")
WatsonGeneric0(item) == ValOf(Item(WatsonOutput(item), "generic"))[1]

\* the condition of lines 372-385: item.response.output.generic[0].text is
\* there and true
HasWatsonText(item) ==
    /\ HasKey(item, "response")
    /\ TypeOf(Item(item, "response")) = "dict"
    /\ HasKey(Item(item, "response"), "output")
    /\ TypeOf(WatsonOutput(item)) = "dict"
    /\ TypeOf(JGet(WatsonOutput(item), "generic")) = "list"
    /\ JTruthy(Item(WatsonOutput(item), "generic"))
    /\ TypeOf(WatsonGeneric0(item)) = "dict"
    /\ JTruthy(JGet(WatsonGeneric0(item), "text"))

\* item["response"]["output"]["generic"][0]["text"]
WatsonText(item) == Item(WatsonGeneric0(item), "text")

\* what one element of the message array adds to texts; raised when
\* .strip() is called on what is no str
JsonItemTexts(item) ==
    IF TypeOf(item) # "dict" THEN [raised |-> FALSE, texts |-> <<>>]
    ELSE IF ~HasWatsonText(item)
         THEN [raised |-> FALSE, texts |-> FirstTextKey(item, 1)]
         ELSE IF TypeOf(WatsonText(item)) # "str"
              THEN [raised |-> TRUE, texts |-> FirstTextKey(item, 1)]
              ELSE [raised |-> FALSE,
                    texts  |-> Append(FirstTextKey(item, 1), Strip(ValOf(WatsonText(item))))]

\* (mutant) the texts of an element are put before those of the elements
\* before it
RECURSIVE JsonTextsPrepended(_)
JsonTextsPrepended(ms) ==
    IF ms = <<>> THEN [raised |-> FALSE, texts |-> <<>>]
    ELSE LET before == JsonTextsPrepended(SubSeq(ms, 1, Len(ms) - 1))
             this   == JsonItemTexts(ms[Len(ms)])
         IN  IF before.raised THEN before
             ELSE [raised |-> this.raised, texts |-> this.texts \o before.texts]

\* the loop over the message array: texts so far, and whether it raised
RECURSIVE JsonTexts(_)
JsonTexts(ms) ==
    IF ms = <<>> THEN [raised |-> FALSE, texts |-> <<>>]
    ELSE LET before == JsonTexts(SubSeq(ms, 1, Len(ms) - 1))
             this   == JsonItemTexts(ms[Len(ms)])
         IN  IF before.raised THEN before
             ELSE [raised |-> this.raised, texts |-> before.texts \o this.texts]

RECURSIVE TxtTexts(_)
TxtTexts(lines) ==
    IF lines = <<>> THEN <<>>
    ELSE TxtLineTexts(Head(lines)) \o TxtTexts(Tail(lines))

\* (mutant) no final filter
Unfiltered(ts) == ts

\* [t for t in texts if t and t.strip()]
RECURSIVE FinalFilter(_)
FinalFilter(ts) ==
    IF ts = <<>> THEN <<>>
    ELSE IF Head(ts) # <<>> /\ Strip(Head(ts)) # <<>>
         THEN <<Head(ts)>> \o FinalFilter(Tail(ts))
         ELSE FinalFilter(Tail(ts))

\* lines 395-400
TextHasHeader(f) == f.sniff # "no_header"

\* (mutant) the first column is the text column
FirstColAsTextCol(f) ==
    IF HasFieldnames(DictReaderFieldnames(f.lines))
    THEN DictReaderFieldnames(f.lines)[1]
    ELSE None

\* the text column of a file read with its header, None without one
ActualTextCol(f) ==
    IF HasFieldnames(DictReaderFieldnames(f.lines))
    THEN ActualCol(DictReaderFieldnames(f.lines), TEXT_COL_NAMES)
    ELSE None

\* the lines of a .csv file that extract_text_from_file reads: the first one
\* for the field names, the others when there is a text column; all of them
\* without header
CsvLinesRead(f) ==
    IF TextHasHeader(f)
    THEN IF Truthy(ActualTextCol(f)) THEN f.lines
         ELSE SubSeq(f.lines, 1, Min({1, Len(f.lines)}))
    ELSE f.lines

\* lines 404-444, for the lines read so far: the texts found in them
CsvTextsOf(f, lines) ==
    IF TextHasHeader(f)
    THEN LET rows == DictReaderRows(lines)
             fieldnames == DictReaderFieldnames(f.lines)
             Cell(row) == DictGet(fieldnames, row, ActualTextCol(f))
             found == SelectSeq(rows, LAMBDA row : Truthy(Cell(row))
                                                   /\ Strip(Cell(row)) # <<>>)
         IN  IF Truthy(ActualTextCol(f))
             THEN [p \in 1..Len(found) |-> Strip(Cell(found[p]))]
             ELSE <<>>
    ELSE LET rows == ReaderRows(lines)
             candidates == [p \in 1..Len(rows) |->
                               IF Len(rows[p]) > 1 THEN Strip(rows[p][Len(rows[p])])
                               ELSE IF rows[p] # <<>> THEN Strip(rows[p][1])
                               ELSE <<>>]
         IN  SelectSeq(candidates, LAMBDA text_candidate : text_candidate # <<>>)

\* (mutant) the texts of the lines before the one that cannot be read are
\* returned
CsvTextsPartial(f) ==
    LET bad == {p \in 1..Len(f.lines) : f.lines[p] = BAD_ROW}
    IN  [raised |-> FALSE,
         texts |-> CsvTextsOf(f, SubSeq(f.lines, 1, Min(bad \cup {Len(f.lines) + 1}) - 1))]

\* the loop over the lines of the file: texts so far, and whether it raised
CsvTexts(f) ==
    LET bad == {p \in 1..Len(CsvLinesRead(f)) : f.lines[p] = BAD_ROW}
    IN  IF ~f.valid THEN [raised |-> TRUE, texts |-> <<>>]
        ELSE IF bad # {}
        THEN [raised |-> TRUE, texts |-> CsvTextsOf(f, SubSeq(f.lines, 1, Min(bad) - 1))]
        ELSE [raised |-> FALSE, texts |-> CsvTextsOf(f, f.lines)]

TEXT_ERROR == "Could not extract text"

\* what the function returns: a list of str, or the dict {"error": ...}
PyList(xs)   == [list |-> xs]
PyError(msg) == [error |-> msg]

extract_text_from_file(f) ==
    CASE f.ext = "txt"  -> PyList(FinalFilter(TxtTexts(f.lines)))
      [] f.ext = "json" ->
            IF TextMessages(f).raised \/ JsonTexts(TextMessages(f).messages).raised
            THEN PyError(TEXT_ERROR)
            ELSE PyList(FinalFilter(JsonTexts(TextMessages(f).messages).texts))
      [] f.ext = "csv"  ->
            IF CsvTexts(f).raised THEN PyError(TEXT_ERROR)
            ELSE PyList(FinalFilter(CsvTexts(f).texts))
      [] OTHER -> PyList(<<>>)

----------------------------------------------------------------------------
(* calculate_interaction_frequency                                         *)

\* interactions = defaultdict(int), speakers_in_convo = set(), last_speaker = None
EmptyWalk ==
    [interactions |-> <<>>, speakers_in_convo |-> {}, last_speaker |-> None]

\* interactions[key] += 1
Increment(interactions, key) ==
    IF key \in DOMAIN interactions
    THEN [interactions EXCEPT ![key] = @ + 1]
    ELSE [k \in DOMAIN interactions \cup {key} |->
            IF k = key THEN 1 ELSE interactions[k]]

\* (mutant) every turn after the first is counted
IsInteractionAnyTurn(last_speaker, current_speaker) == Truthy(last_speaker)

\* whether this turn is counted as an interaction
IsInteraction(last_speaker, current_speaker) ==
    Truthy(last_speaker) /\ last_speaker # current_speaker

\* a loop body in which a message without a speaker ends the turn sequence
WalkStepResetting(w, current_speaker) ==
    IF ~Truthy(current_speaker) THEN [w EXCEPT !.last_speaker = None]
    ELSE [interactions |->
              IF IsInteraction(w.last_speaker, current_speaker)
              THEN Increment(w.interactions, <<w.last_speaker, current_speaker>>)
              ELSE w.interactions,
          speakers_in_convo |-> w.speakers_in_convo \cup {current_speaker},
          last_speaker |-> current_speaker]

\* the body of the loop, lines 90-94 (and 119-123)
WalkStep(w, current_speaker) ==
    IF ~Truthy(current_speaker) THEN w
    ELSE [interactions |->
              IF IsInteraction(w.last_speaker, current_speaker)
              THEN Increment(w.interactions, <<w.last_speaker, current_speaker>>)
              ELSE w.interactions,
          speakers_in_convo |-> w.speakers_in_convo \cup {current_speaker},
          last_speaker |-> current_speaker]

\* what the loop runs over, and the speaker of one of them
\* lines 135-137 and 159: a sniffer that raises leads to the plain reader
GraphHasHeader(f) == f.sniff = "header"

GraphSource(f) ==
    CASE f.ext = "txt"  -> f.lines
      [] f.ext = "json" -> GraphMessages(f).messages
      [] f.ext = "csv"  -> IF GraphHasHeader(f) THEN DictReaderRows(f.lines)
                           ELSE ReaderRows(f.lines)
      [] OTHER -> <<>>

CurrentSpeaker(f, x) ==
    CASE f.ext = "txt"  -> get_speaker_from_line_txt(x)
      [] f.ext = "csv"  ->
            get_speaker_from_csv_row(x, IF GraphHasHeader(f)
                                        THEN DictReaderFieldnames(f.lines)
                                        ELSE NoFieldnames)
      [] OTHER -> get_speaker_from_json_item(x)

GRAPH_ERROR == "Could not calculate interaction frequency"

\* a line the reader cannot read raises once more in the plain reader of
\* lines 159-171
CsvRaises(f) == ~f.valid \/ \E p \in 1..Len(f.lines) : f.lines[p] = BAD_ROW

GraphRaises(f) ==
    \/ f.ext = "json" /\ GraphMessages(f).raised
    \/ f.ext = "csv" /\ CsvRaises(f)

\* lines 177-183
GraphResult(w) ==
    [nodes |-> {[id |-> speaker] : speaker \in w.speakers_in_convo},
     links |-> {[source |-> key[1], target |-> key[2], value |-> w.interactions[key]] :
                    key \in DOMAIN w.interactions}]

RECURSIVE Walk(_, _, _)
Walk(f, w, todo) ==
    IF todo = <<>> THEN w
    ELSE Walk(f, WalkStep(w, CurrentSpeaker(f, Head(todo))), Tail(todo))

calculate_interaction_frequency(f) ==
    IF GraphRaises(f) THEN [error |-> GRAPH_ERROR]
    ELSE GraphResult(Walk(f, EmptyWalk, GraphSource(f)))

----------------------------------------------------------------------------
(* The files of the model.                                                 *)

\* the lines of the sample .txt files, without their line ends:
\*   "A: hi"  "B: yo"  "D. S: ok"  " A : hi"  "12: t"  "12:t"  "12:"  "A:"
\*   "a!: x"  ": x"  "hello"  ""
LineBodies ==
    {<<"A", ":", " ", "h", "i">>,
     <<"B", ":", " ", "y", "o">>,
     <<"D", ".", " ", "S", ":", " ", "o", "k">>,
     <<" ", "A", " ", ":", " ", "h", "i">>,
     <<"1", "2", ":", " ", "t">>,
     <<"1", "2", ":", "t">>,
     <<"1", "2", ":">>,
     <<"A", ":">>,
     <<"a", "!", ":", " ", "x">>,
     <<":", " ", "x">>,
     <<"h", "e", "l", "l", "o">>,
     <<>>}

RECURSIVE SeqsUpTo(_, _)
SeqsUpTo(S, n) ==
    IF n = 0 THEN {<<>>}
    ELSE LET shorter == SeqsUpTo(S, n - 1)
         IN  shorter \cup {Append(s, x) : s \in {t \in shorter : Len(t) = n - 1},
                                          x \in S}

\* what "for line in f" yields: every line ends with "\n", except that the
\* last line of the file may lack it
TxtContents ==
    LET ended == SeqsUpTo({Append(b, "\n") : b \in LineBodies}, MaxLines)
    IN  ended \cup {Append(ls, b) : ls \in {x \in ended : Len(x) < MaxLines},
                                    b \in LineBodies \ {<<>>}}

TxtFiles == {TxtFile(ls) : ls \in TxtContents}

Watson(text) ==
    JDict([output |-> JDict([generic |-> JList(<<JDict([text |-> text])>>)])])

\* the elements of the message arrays of the sample .json files
JsonItems ==
    {JDict([speaker |-> JStr(<<"X">>), text |-> JStr(<<"h", "i">>)]),
     JDict([speaker |-> JStr(<<"Y">>), text |-> JStr(<<" ", "y", "o", " ">>)]),
     JDict([speaker |-> JStr(<<"X">>), text |-> JStr(<<>>)]),
     JDict([speaker |-> JStr(<<>>), user |-> JStr(<<"U">>), message |-> JStr(<<"m">>)]),
     JDict([speaker |-> JInt(7), text |-> JInt(5)]),
     JDict([speaker |-> JStr(<<"Z">>), text |-> JStr(<<"o", "k">>)]),
     JDict([text |-> JStr(<<"t">>)]),
     JDict([text |-> JStr(<<" ", " ">>), msg |-> JStr(<<"m">>), name |-> JStr(<<"N">>)]),
     JDict([speaker |-> JStr(<<"X">>), text |-> JStr(<<"h", "i">>),
            response |-> Watson(JStr(<<"w">>))]),
     JDict([user |-> JStr(<<"U">>), response |-> Watson(JInt(5))]),
     JDict(<<>>),
     JStr(<<"s">>)}

JsonArrays == SeqsUpTo(JsonItems, MaxItems)

\* the documents: the array at the root, under "transcript", under
\* "log"."messages", under both, and documents with no array to find
JsonDocs ==
    {JList(ms) : ms \in JsonArrays}
    \cup {JDict([transcript |-> JList(ms)]) : ms \in JsonArrays}
    \cup {JDict([log |-> JDict([messages |-> JList(ms)])]) : ms \in JsonArrays}
    \cup {JDict([transcript |-> JStr(<<"x">>),
                 log |-> JDict([messages |-> JList(ms)])]) : ms \in JsonArrays}
    \cup {JDict([transcript |-> JList(ms),
                 log |-> JDict([messages |-> JList(<<>>)])]) : ms \in JsonArrays}
    \cup {JInt(3),
          JDict([log |-> JInt(5)]),
          JDict([log |-> JStr(MessagesKeyword)]),
          JDict([log |-> JList(<<JStr(MessagesKeyword)>>)]),
          JDict([log |-> JDict([messages |-> JStr(<<"x">>)])]),
          JList(<<JDict([response |-> Watson(JStr(<<" ", " ">>))]),
                  JDict([text |-> JStr(<<"t">>)])>>)}

JsonFiles == {JsonFile(d) : d \in JsonDocs} \cup {BadJsonFile}

\* longer conversations of two speakers, with lines of no speaker in them
TurnFiles ==
    {TxtFile(ls) :
        ls \in [1..MaxTurns -> {Chars("A: hi\n"), Chars("B: yo\n"), Chars("hello\n")}]}

\* The sample .csv files, each with what csv.Sniffer().has_header() of
\* Python 3.11 does on it.  A line "<csv.Error>" is one the reader cannot read.
CsvLines(strs) ==
    [p \in 1..Len(strs) |-> IF strs[p] = "<csv.Error>" THEN BAD_ROW ELSE Chars(strs[p])]

\* has_header() is True
SniffedHeader ==
    {<<"speaker,message">>, <<"speaker,message", "Alice,hi">>, <<"speaker,message", "Bob, yo ">>,
     <<"speaker,message", "12,x">>, <<"speaker,message", "">>, <<"speaker,message", ",hm">>,
     <<"speaker,message", "Alice,hi", "Alice,hi">>, <<"speaker,message", "Alice,hi", "">>,
     <<"speaker,message", "", "Alice,hi">>, <<"speaker,message", ",hm", "Alice,hi">>,
     <<"Name,Text">>, <<"Name,Text", "Alice,hi">>, <<"Name,Text", "12,x">>, <<"Name,Text", "">>,
     <<"Name,Text", ",hm">>, <<"Name,Text", "Alice,hi", "Alice,hi">>, <<"Name,Text", "Alice,hi",
     "">>, <<"Name,Text", "", "Alice,hi">>, <<"Name,Text", ",hm", "Alice,hi">>, <<"id,note">>,
     <<"id,note", "Alice,hi">>, <<"id,note", "12,x">>, <<"id,note", "">>, <<"id,note", ",hm">>,
     <<"id,note", "Alice,hi", "Alice,hi">>, <<"id,note", "Alice,hi", "">>, <<"id,note", "",
     "Alice,hi">>, <<"id,note", ",hm", "Alice,hi">>, <<"message,speaker">>, <<"message,speaker",
     "Alice,hi">>, <<"message,speaker", "Bob, yo ">>, <<"message,speaker", "12,x">>,
     <<"message,speaker", "">>, <<"message,speaker", ",hm">>, <<"message,speaker", "Alice,hi",
     "Alice,hi">>, <<"message,speaker", "Alice,hi", "">>, <<"message,speaker", "", "Alice,hi">>,
     <<"message,speaker", ",hm", "Alice,hi">>, <<"speaker">>, <<"speaker", "">>,
     <<"name,speaker,msg">>, <<"name,speaker,msg", "">>, <<"name,speaker,msg", "Al,Bo,hi">>,
     <<"name,speaker,msg", "Al,Bo,hi", "Bo,Al,yo">>, <<"Alice,hi">>, <<"Alice,hi", "Bob, yo ">>,
     <<"Alice,hi", "12,x">>, <<"Alice,hi", "">>, <<"12,x">>, <<"12,x", "Alice,hi">>, <<"12,x",
     "Bob, yo ">>, <<"12,x", "">>, <<"12,x", ",hm">>, <<"12,x", "Alice,hi", "Alice,hi">>,
     <<"12,x", "Alice,hi", "">>, <<"12,x", "", "Alice,hi">>, <<"12,x", ",hm", "Alice,hi">>,
     <<"speaker,msg,text", "Al,a,b">>, <<"speaker,msg,text", "Al,a,b", "Bo,c,d">>,
     <<"Name,SPEAKER,Text", "Al,Bo,hi">>, <<"Name,SPEAKER,Text", "Al,Bo,hi", "Cy,Di,yo">>,
     <<"speaker,message", "Alice,  ", "Bob,yo">>, <<"Alice,  ", "Bob,yo", "Cy,ok">>,
     <<"msg,text,name,speaker", "a,b,Al,Bo", "c,d,Cy,Di">>, <<"<csv.Error>", "Alice,hi">>,
     <<"speaker,message", "Alice,hi", "Bob,yo", "<csv.Error>">>}

\* has_header() is False
SniffedNoHeader ==
    {<<"speaker,message", "Alice,hi", "Bob, yo ">>, <<"speaker,message", "Bob, yo ",
     "Alice,hi">>, <<"Name,Text", "Bob, yo ">>, <<"Name,Text", "Alice,hi", "Bob, yo ">>,
     <<"Name,Text", "Bob, yo ", "Alice,hi">>, <<"id,note", "Bob, yo ">>, <<"id,note",
     "Al,Bo,hi">>, <<"id,note", "Alice,hi", "Bob, yo ">>, <<"id,note", "Bob, yo ", "Alice,hi">>,
     <<"message,speaker", "Alice,hi", "Bob, yo ">>, <<"message,speaker", "Bob, yo ",
     "Alice,hi">>, <<"", "Alice,hi">>, <<"", "Bob, yo ">>, <<"", "12,x">>, <<"", "Cy">>, <<"",
     "Al,Bo,hi">>, <<"", ",hm">>, <<"", "Alice,hi", "Bob, yo ">>, <<"", "Alice,hi", "Alice,hi">>,
     <<"", "Bob, yo ", "Alice,hi">>, <<"", "Alice,hi", "">>, <<"", "", "Alice,hi">>, <<"",
     "Al,Bo,hi", "Bo,Al,yo">>, <<"", ",hm", "Alice,hi">>, <<"Alice,hi", "Alice,hi">>,
     <<"Alice,hi", "Al,Bo,hi">>, <<"Alice,hi", ",hm">>, <<"Alice,hi", "Alice,hi", "Bob, yo ">>,
     <<"Alice,hi", "Alice,hi", "Alice,hi">>, <<"Alice,hi", "Bob, yo ", "Alice,hi">>,
     <<"Alice,hi", "Alice,hi", "">>, <<"Alice,hi", "", "Alice,hi">>, <<"Alice,hi", "Al,Bo,hi",
     "Bo,Al,yo">>, <<"Alice,hi", ",hm", "Alice,hi">>, <<"12,x", "12,x">>, <<"12,x", "Alice,hi",
     "Bob, yo ">>, <<"12,x", "Bob, yo ", "Alice,hi">>, <<"speaker,message", "Alice,hi",
     "<csv.Error>">>, <<"Alice,hi", "Bob,yo", "<csv.Error>">>}

\* has_header() raises csv.Error
SniffFails ==
    {<<>>, <<"speaker,message", "Cy">>, <<"speaker,message", "Al,Bo,hi">>, <<"speaker,message",
     "12,x", "Cy">>, <<"speaker,message", "Al,Bo,hi", "Bo,Al,yo">>, <<"speaker,message", "Cy",
     "Alice,hi">>, <<"Name,Text", "Cy">>, <<"Name,Text", "Al,Bo,hi">>, <<"Name,Text", "12,x",
     "Cy">>, <<"Name,Text", "Al,Bo,hi", "Bo,Al,yo">>, <<"Name,Text", "Cy", "Alice,hi">>,
     <<"id,note", "Cy">>, <<"id,note", "12,x", "Cy">>, <<"id,note", "Al,Bo,hi", "Bo,Al,yo">>,
     <<"id,note", "Cy", "Alice,hi">>, <<"message,speaker", "Cy">>, <<"message,speaker",
     "Al,Bo,hi">>, <<"message,speaker", "12,x", "Cy">>, <<"message,speaker", "Al,Bo,hi",
     "Bo,Al,yo">>, <<"message,speaker", "Cy", "Alice,hi">>, <<"speaker", "Alice,hi">>,
     <<"speaker", "Bob, yo ">>, <<"speaker", "12,x">>, <<"speaker", "Cy">>, <<"speaker",
     "Al,Bo,hi">>, <<"speaker", ",hm">>, <<"speaker", "Alice,hi", "Bob, yo ">>, <<"speaker",
     "Alice,hi", "Alice,hi">>, <<"speaker", "Bob, yo ", "Alice,hi">>, <<"speaker", "Alice,hi",
     "">>, <<"speaker", "", "Alice,hi">>, <<"speaker", "12,x", "Cy">>, <<"speaker", "Al,Bo,hi",
     "Bo,Al,yo">>, <<"speaker", "Cy", "Alice,hi">>, <<"speaker", ",hm", "Alice,hi">>, <<"">>,
     <<"", "">>, <<"", "12,x", "Cy">>, <<"", "Cy", "Alice,hi">>, <<"name,speaker,msg",
     "Alice,hi">>, <<"name,speaker,msg", "Bob, yo ">>, <<"name,speaker,msg", "12,x">>,
     <<"name,speaker,msg", "Cy">>, <<"name,speaker,msg", ",hm">>, <<"name,speaker,msg",
     "Alice,hi", "Bob, yo ">>, <<"name,speaker,msg", "Alice,hi", "Alice,hi">>,
     <<"name,speaker,msg", "Bob, yo ", "Alice,hi">>, <<"name,speaker,msg", "Alice,hi", "">>,
     <<"name,speaker,msg", "", "Alice,hi">>, <<"name,speaker,msg", "12,x", "Cy">>,
     <<"name,speaker,msg", "Cy", "Alice,hi">>, <<"name,speaker,msg", ",hm", "Alice,hi">>,
     <<"Alice,hi", "Cy">>, <<"Alice,hi", "12,x", "Cy">>, <<"Alice,hi", "Cy", "Alice,hi">>,
     <<"12,x", "Cy">>, <<"12,x", "Al,Bo,hi">>, <<"12,x", "12,x", "Cy">>, <<"12,x", "Al,Bo,hi",
     "Bo,Al,yo">>, <<"12,x", "Cy", "Alice,hi">>, <<"speaker,message", "Alice,hi", "Bob,yo",
     "<csv.Error>">>, <<"speaker,message", "<csv.Error>">>, <<"Alice,hi", "Bob,yo",
     "<csv.Error>">>, <<"id,note", "1,a", "<csv.Error>">>}

CsvFiles ==
    {CsvFile(CsvLines(strs), "header") : strs \in SniffedHeader}
    \cup {CsvFile(CsvLines(strs), "no_header") : strs \in SniffedNoHeader}
    \cup {CsvFile(CsvLines(strs), "error") : strs \in SniffFails}
    \cup {BadCsvFile}

Files == TxtFiles \cup TurnFiles \cup JsonFiles \cup CsvFiles \cup {OtherFile}

-----------------------------------------------------------------------------
(* ConversationAnalyzer._calculate_influence_scores (analyzer/convolens.py). *)
(* A message is the sequence of its whitespace-separated words, with the     *)
(* polarity TextBlob gives it, in hundredths (-100..100).  Scores are kept   *)
(* in thousandths: 0.1 is 100, 0.05 is 50, polarity p/100 * 0.2 is 2 * p.    *)
(* The code computes in binary floating point, so a score is the exact       *)
(* fraction together with the side on which the accumulated rounding left    *)
(* the float: below (-1), on (0) or above (1) the exact value.  The rounding *)
(* is far smaller than the gap between two different exact scores.           *)

Abs(n) == IF n < 0 THEN -n ELSE n

\* str.lower() of a word
Lower(word) ==
    CASE word = "I"       -> "i"
      [] word = "Love"    -> "love"
      [] word = "BECAUSE" -> "because"
      [] OTHER            -> word

message_lower(message) == [p \in 1..Len(message.words) |-> Lower(message.words[p])]

\* self.persuasion_indicators, pattern by pattern in dict order; a pattern is
\* the set of word sequences it matches
PERSUASION_INDICATORS == <<
    [tactic |-> "emotional_appeal", matches |-> {<<"feel">>, <<"feeling">>, <<"felt">>}],
    [tactic |-> "emotional_appeal", matches |-> {<<"heart">>}],
    [tactic |-> "emotional_appeal", matches |-> {<<"love">>, <<"hate">>}],
    [tactic |-> "emotional_appeal", matches |-> {<<"fear">>, <<"afraid">>, <<"scared">>}],
    [tactic |-> "emotional_appeal", matches |-> {<<"angry">>, <<"mad">>, <<"furious">>}],
    [tactic |-> "authority", matches |-> {<<"expert">>, <<"specialist">>, <<"professional">>}],
    [tactic |-> "authority", matches |-> {<<"study", "show">>, <<"studies", "show">>}],
    [tactic |-> "authority", matches |->
        {<<"research", "shows">>, <<"research", "indicates">>, <<"research", "proves">>}],
    [tactic |-> "authority", matches |-> {<<"according", "to">>}],
    [tactic |-> "logic", matches |-> {<<"therefore">>}],
    [tactic |-> "logic", matches |-> {<<"because">>}],
    [tactic |-> "logic", matches |-> {<<"since">>}],
    [tactic |-> "logic", matches |-> {<<"thus">>}],
    [tactic |-> "logic", matches |-> {<<"consequently">>}],
    [tactic |-> "logic", matches |-> {<<"as", "a", "result">>}],
    [tactic |-> "social_proof", matches |->
        {<<"people", "are">>, <<"people", "do">>, <<"people", "think">>, <<"people", "believe">>}],
    [tactic |-> "social_proof", matches |-> {<<"trend">>}],
    [tactic |-> "social_proof", matches |-> {<<"popular">>}],
    [tactic |-> "social_proof", matches |-> {<<"majority">>}] >>

\* re.search(pattern, words): one of the pattern's word sequences occurs
Search(pattern, words) ==
    \E m \in pattern.matches :
        \E p \in 1..(Len(words) - Len(m) + 1) : SubSeq(words, p, p + Len(m) - 1) = m

\* the patterns that match a message, in the order the loops visit them
MatchedPatterns(message) ==
    SelectSeq(PERSUASION_INDICATORS, LAMBDA pattern : Search(pattern, message_lower(message)))

PATTERN_SCORE  == 100
LONG_MESSAGE   == 20
LENGTH_SCORE   == 50
QUESTION_SCORE == 100
SENTIMENT_WEIGHT == 2
MAX_PER_MESSAGE  == 500

\* what one message adds to its speaker's score
MessageScore(message) ==
    PATTERN_SCORE * Len(MatchedPatterns(message))
    + (IF Len(message.words) > LONG_MESSAGE THEN LENGTH_SCORE ELSE 0)
    + Abs(message.polarity) * SENTIMENT_WEIGHT
    + (IF \E p \in 1..Len(message.words) : message.words[p] = "?"
       THEN QUESTION_SCORE ELSE 0)

RECURSIVE RawScore(_)
RawScore(messages) ==
    IF messages = <<>> THEN 0
    ELSE MessageScore(Head(messages)) + RawScore(Tail(messages))

\* tactics: each tactic once, in the order of its first matching pattern
RECURSIVE AddTactics(_, _)
AddTactics(tactics, patterns) ==
    IF patterns = <<>> THEN tactics
    ELSE AddTactics(IF \E p \in 1..Len(tactics) : tactics[p] = Head(patterns).tactic
                    THEN tactics
                    ELSE Append(tactics, Head(patterns).tactic),
                    Tail(patterns))

RECURSIVE Tactics(_, _)
Tactics(tactics, messages) ==
    IF messages = <<>> THEN tactics
    ELSE Tactics(AddTactics(tactics, MatchedPatterns(Head(messages))), Tail(messages))

\* a float: the exact fraction num / den and the side of its rounding
Float(num, den, rounding) == [num |-> num, den |-> den, rounding |-> rounding]

Roundings == {-1, 0, 1}

\* the normalisation without its upper clamp
NormalizeUnclamped(score, max_possible_score, rounding) ==
    IF max_possible_score > 0
    THEN Float(score, max_possible_score, rounding)
    ELSE Float(0, 1, 0)

\* min(score / max_possible_score, 1.0) if max_possible_score > 0 else 0;
\* a score of 0 is computed without rounding, and min() leaves nothing above 1.0
Normalize(score, max_possible_score, rounding) ==
    IF max_possible_score > 0
    THEN CASE score > max_possible_score -> Float(max_possible_score, max_possible_score, 0)
           [] score = max_possible_score ->
                 Float(max_possible_score, max_possible_score, Min({rounding, 0}))
           [] score = 0 -> Float(0, max_possible_score, 0)
           [] OTHER -> Float(score, max_possible_score, rounding)
    ELSE Float(0, 1, 0)

\* speaker_data: the speakers in the order first met, each with its messages
RECURSIVE SpeakerData(_, _)
SpeakerData(speaker_data, data) ==
    IF data = <<>> THEN speaker_data
    ELSE LET msg == Head(data)
             known == \E p \in 1..Len(speaker_data) : speaker_data[p].speaker = msg.speaker
             next == IF known
                     THEN [p \in 1..Len(speaker_data) |->
                             IF speaker_data[p].speaker = msg.speaker
                             THEN [speaker_data[p] EXCEPT
                                      !.messages = Append(@, msg.message)]
                             ELSE speaker_data[p]]
                     ELSE Append(speaker_data,
                                 [speaker |-> msg.speaker, messages |-> <<msg.message>>])
         IN  SpeakerData(next, Tail(data))

InfluenceRecord(entry, rounding) ==
    [speaker       |-> entry.speaker,
     score         |-> Normalize(RawScore(entry.messages),
                                 Len(entry.messages) * MAX_PER_MESSAGE, rounding),
     tactics       |-> Tactics(<<>>, entry.messages),
     message_count |-> Len(entry.messages)]

\* a.score < b.score
ScoreLess(a, b) ==
    LET left == a.score.num * b.score.den
        right == b.score.num * a.score.den
    IN  left < right \/ (left = right /\ a.score.rounding < b.score.rounding)

\* a sort that puts a record ahead of the records of equal score placed
\* before it
RECURSIVE SortedByScoreUnstable(_, _)
SortedByScoreUnstable(sorted, records) ==
    IF records = <<>> THEN sorted
    ELSE LET x == Head(records)
             behind == Cardinality({p \in 1..Len(sorted) : ScoreLess(x, sorted[p])})
         IN  SortedByScoreUnstable(SubSeq(sorted, 1, behind) \o <<x>>
                                      \o SubSeq(sorted, behind + 1, Len(sorted)),
                                   Tail(records))

\* sorted(influence_scores, key=score, reverse=True): stable, so a record goes
\* behind every record already placed whose score is not lower
RECURSIVE SortedByScore(_, _)
SortedByScore(sorted, records) ==
    IF records = <<>> THEN sorted
    ELSE LET x == Head(records)
             behind == Cardinality({p \in 1..Len(sorted) : ~ScoreLess(sorted[p], x)})
         IN  SortedByScore(SubSeq(sorted, 1, behind) \o <<x>>
                              \o SubSeq(sorted, behind + 1, Len(sorted)),
                           Tail(records))

\* rounding: the side of the rounding of each speaker's score
calculate_influence_scores(data, rounding) ==
    LET speaker_data == SpeakerData(<<>>, data)
        records == [p \in 1..Len(speaker_data) |->
                       InfluenceRecord(speaker_data[p], rounding[speaker_data[p].speaker])]
    IN  SortedByScore(<<>>, records)

\* the conversations analysed
Message(words, polarity) == [words |-> words, polarity |-> polarity]

LongText == [p \in 1..(LONG_MESSAGE + 1) |-> "ok"]

Messages == {
    Message(<<"ok">>, 0),
    Message(<<"I", "feel", "Love">>, 50),
    Message(<<"BECAUSE", "studies", "show">>, -30),
    Message(<<"why", "?">>, 0),
    Message(LongText, 0),
    Message(<<"people", "think", "i", "hate", "fear", "since", "when", "?">>, -100),
    Message(<<>>, 0) }

InfluenceSpeakers == {"A", "B"}

Conversations ==
    SeqsUpTo([speaker : InfluenceSpeakers, message : Messages], MaxMessages)

-----------------------------------------------------------------------------
(* The analyzers of a list of utterances (services/analysis_service.py).     *)

\* the check without its isspace() part
InvalidTextEmptyOnly(text) == text = None \/ text = <<>>

\* "not text or not isinstance(text, str) or text.isspace()"
InvalidText(text) == text = None \/ text = <<>> \/ IsSpace(text)

INVALID_TEXT_ERROR == "Empty or invalid input text"

\* \b between the characters k and k + 1 of text
WordBoundary(text, k) ==
    LET before == k >= 1 /\ k <= Len(text) /\ text[k] \in WordChars
        after  == k + 1 >= 1 /\ k + 1 <= Len(text) /\ text[k + 1] \in WordChars
    IN  before # after

\* re.compile(r"\b" + re.escape(word) + r"\b", re.IGNORECASE), for each word
\* of a lexicon: a pattern is kept as its word in lower case
Compile(lexicon) == [k \in 1..Len(lexicon) |-> StrLower(Chars(lexicon[k]))]

\* the pattern matches at p, whatever the case of the letters of the text
\* (lower is the text in lower case)
MatchAt(text, lower, pattern, p) ==
    /\ p + Len(pattern) - 1 <= Len(text)
    /\ lower[p] = pattern[1]
    /\ SubSeq(lower, p, p + Len(pattern) - 1) = pattern
    /\ WordBoundary(text, p - 1)
    /\ WordBoundary(text, p + Len(pattern) - 1)

\* the matches of the pattern at or after position from: the matched pieces
\* of the text, left to right, without overlap
RECURSIVE FindAllFrom(_, _, _, _)
FindAllFrom(text, lower, pattern, from) ==
    LET at == {p \in from..Len(text) : MatchAt(text, lower, pattern, p)}
    IN  IF at = {} THEN <<>>
        ELSE LET p == Min(at)
             IN  <<SubSeq(text, p, p + Len(pattern) - 1)>>
                    \o FindAllFrom(text, lower, pattern, p + Len(pattern))

\* the list without its repeated elements, in order of first occurrence
RECURSIVE Unique(_)
Unique(xs) ==
    IF xs = <<>> THEN <<>>
    ELSE LET front == Unique(SubSeq(xs, 1, Len(xs) - 1))
             last == xs[Len(xs)]
         IN  IF \E p \in 1..Len(front) : front[p] = last THEN front
             ELSE Append(front, last)

\* the permutation of xs numbered k
RECURSIVE Permute(_, _)
Permute(xs, k) ==
    IF xs = <<>> THEN <<>>
    ELSE LET n == Len(xs)
             p == (k % n) + 1
         IN  <<xs[p]>> \o Permute(SubSeq(xs, 1, p - 1) \o SubSeq(xs, p + 1, n), k \div n)

\* list(set(matches)): the unique matches, in the order in which the set
\* iterates; that order is fixed by the strings' hashes, which are randomised
\* when the process starts (seed)
ListSet(matches, seed) == Permute(Unique(matches), seed)

ETHOS_LEXICON == <<
    "expert", "expertise", "authority", "authoritative", "credentials",
    "experience", "experienced", "proven", "track record", "reliable",
    "trustworthy", "honest", "integrity", "sincere", "research shows",
    "studies indicate", "according to experts", "dr.", "professor",
    "we believe", "our commitment", "our values", "ethically",
    "responsible" >>

PATHOS_LEXICON == <<
    "imagine", "feel", "feeling", "heart", "soul", "spirit", "passion",
    "passionate", "hope", "dream", "aspire", "desire", "yearn", "joy",
    "happy", "delight", "pleasure", "wonderful", "amazing", "fantastic",
    "miracle", "sad", "sorrow", "pain", "suffering", "heartbreaking",
    "tragic", "unfortunate", "fear", "afraid", "danger", "risk", "threat",
    "anxiety", "worry", "anger", "outrage", "frustration", "injustice",
    "unfair", "love", "compassion", "empathy", "care", "kindness",
    "sympathy", "urgent", "critical", "immediate", "now", "crisis",
    "must act", "story", "tale", "narrative", "journey", "vulnerable",
    "struggle", "victory", "our children", "our future", "community",
    "family", "shared values", "common good" >>

LOGOS_LEXICON == <<
    "logic", "logical", "reason", "rational", "rationale", "sound argument",
    "evidence", "proof", "data", "statistics", "facts", "figures",
    "numbers", "chart", "graph", "analysis", "analyze", "analytical",
    "study", "research", "findings", "because", "therefore", "consequently",
    "as a result", "thus", "hence", "ergo", "if...then", "since",
    "given that", "it follows that", "clear", "clearly", "obvious",
    "evidently", "plainly", "demonstrates", "shows", "indicates",
    "points to", "verifies", "confirms", "hypothesis", "theory",
    "principle", "premise", "conclusion", "compare", "contrast",
    "differentiate", "classify", "organize", "systematic" >>


\* the matches of the patterns of a lexicon, pattern after pattern
ethos_patterns  == Compile(ETHOS_LEXICON)
pathos_patterns == Compile(PATHOS_LEXICON)
logos_patterns  == Compile(LOGOS_LEXICON)

\* pattern.findall(text) of the patterns numbered in todo, in the order of
\* the list of patterns
RECURSIVE FindAll(_, _, _, _)
FindAll(patterns, todo, text, lower) ==
    IF todo = {} THEN <<>>
    ELSE LET k == Min(todo)
         IN  FindAllFrom(text, lower, patterns[k], 1)
                \o FindAll(patterns, todo \ {k}, text, lower)

\* the patterns that can match: those whose first two characters follow each
\* other somewhere in the text (no lexicon entry is shorter than that)
Candidates(patterns, lower) ==
    LET pairs == {SubSeq(lower, p, p + 1) : p \in 1..(Len(lower) - 1)}
    IN  {k \in 1..Len(patterns) : SubSeq(patterns[k], 1, 2) \in pairs}

LexiconMatches(patterns, text) ==
    LET lower == StrLower(text)
    IN  FindAll(patterns, Candidates(patterns, lower), text, lower)

PersuasionInvalid(text) ==
    [text |-> text,
     ethos_score |-> 0, pathos_score |-> 0, logos_score |-> 0,
     ethos_matches |-> <<>>, pathos_matches |-> <<>>, logos_matches |-> <<>>,
     error |-> INVALID_TEXT_ERROR]

PersuasionScores(text, seed) ==
    LET ethos_matches  == LexiconMatches(ethos_patterns, text)
        pathos_matches == LexiconMatches(pathos_patterns, text)
        logos_matches  == LexiconMatches(logos_patterns, text)
    IN  [text |-> text,
         ethos_score  |-> Len(ethos_matches),
         pathos_score |-> Len(pathos_matches),
         logos_score  |-> Len(logos_matches),
         ethos_matches  |-> ListSet(ethos_matches, seed),
         pathos_matches |-> ListSet(pathos_matches, seed),
         logos_matches  |-> ListSet(logos_matches, seed)]

calculate_persuasion_scores_heuristic(text_list, seed) ==
    [persuasion_analysis_engine |-> "heuristic_lexicon_v1",
     results |-> [p \in 1..Len(text_list) |->
                     IF InvalidText(text_list[p])
                     THEN PersuasionInvalid(text_list[p])
                     ELSE PersuasionScores(text_list[p], seed)]]
AD_HOMINEM_KEYWORDS == <<
    "idiot", "stupid", "moron", "ignorant", "fool", "jerk", "loser",
    "naive", "you are dumb", "you're a joke", "he is a liar",
    "she is incompetent", "they are clueless", "personal attack" >>

FALSE_DICHOTOMY_PHRASES == <<
    "either...or", "it's either...or...",
    "you are either with us or against us", "either you agree or you don't",
    "there are only two types of people", "no middle ground",
    "black and white thinking" >>

GUILT_TRIPPING_KEYWORDS == <<
    "if you cared", "if you loved me", "you would understand if",
    "don't you feel bad", "after all I've done for you",
    "I sacrificed so much", "you owe me", "making me feel guilty",
    "you always make me" >>

GASLIGHTING_KEYWORDS == <<
    "you're imagining things", "that never happened", "you are crazy",
    "you're being irrational", "you're too sensitive",
    "don't be so dramatic", "I never said that", "you're misremembering",
    "it's all in your head", "you're making it up" >>

\* the first pattern of the list that matches, with its unique matches:
\* "for pattern in patterns: ... if matches: ... break"
ad_hominem_patterns     == Compile(AD_HOMINEM_KEYWORDS)
guilt_tripping_patterns == Compile(GUILT_TRIPPING_KEYWORDS)
gaslighting_patterns    == Compile(GASLIGHTING_KEYWORDS)

\* (mutant) every pattern that matches is recorded
EveryKeywordMatch(patterns, text, type, seed) ==
    LET lower == StrLower(text)
        matching == {k \in Candidates(patterns, lower) :
                        \E p \in 1..Len(text) : MatchAt(text, lower, patterns[k], p)}
        Recorded[k \in 0..Len(patterns)] ==
            IF k = 0 THEN <<>>
            ELSE Recorded[k - 1] \o
                 (IF k \in matching
                  THEN <<[type |-> type,
                          keywords_matched |->
                             ListSet(FindAllFrom(text, lower, patterns[k], 1), seed)]>>
                  ELSE <<>>)
    IN  Recorded[Len(patterns)]

FirstKeywordMatch(patterns, text, type, seed) ==
    LET lower == StrLower(text)
        matching == {k \in Candidates(patterns, lower) :
                        \E p \in 1..Len(text) : MatchAt(text, lower, patterns[k], p)}
    IN  IF matching = {} THEN <<>>
        ELSE <<[type |-> type,
                keywords_matched |->
                   ListSet(FindAllFrom(text, lower, patterns[Min(matching)], 1), seed)]>>

\* text.split(sep)[-1]: what follows the last occurrence of sep
AfterLast(text, sep) ==
    LET at == {p \in 1..(Len(text) - Len(sep) + 1) : SubSeq(text, p, p + Len(sep) - 1) = sep}
    IN  IF at = {} THEN text
        ELSE SubSeq(text, Max(at) + Len(sep), Len(text))

EITHER_OR == "either...or"

\* the extra test made for the phrase "either...or"
EitherOrContext(text_lower) ==
    /\ Contains(text_lower, Chars("either "))
    /\ Contains(AfterLast(text_lower, Chars("either ")), Chars(" or "))

\* the False Dichotomy loop: a phrase found in the text ends the loop, except
\* "either...or" without its context
RECURSIVE FirstPhraseMatch(_, _)
FirstPhraseMatch(phrases, text_lower) ==
    IF phrases = <<>> THEN <<>>
    ELSE LET phrase == Head(phrases)
         IN  IF /\ Contains(text_lower, StrLower(Chars(phrase)))
                /\ phrase = EITHER_OR => EitherOrContext(text_lower)
             THEN <<[type |-> "False Dichotomy", phrase_matched |-> phrase]>>
             ELSE FirstPhraseMatch(Tail(phrases), text_lower)

TacticInvalid(text) ==
    [text |-> text,
     detected_fallacies |-> <<>>,
     detected_manipulations |-> <<>>,
     error |-> INVALID_TEXT_ERROR]

TacticDetection(text, seed) ==
    [text |-> text,
     detected_fallacies |->
        FirstKeywordMatch(ad_hominem_patterns, text, "Ad Hominem", seed)
           \o FirstPhraseMatch(FALSE_DICHOTOMY_PHRASES, StrLower(text)),
     detected_manipulations |->
        FirstKeywordMatch(guilt_tripping_patterns, text, "Guilt Tripping", seed)
           \o FirstKeywordMatch(gaslighting_patterns, text, "Gaslighting (potential)", seed)]

detect_fallacies_and_manipulation_heuristic(text_list, seed) ==
    [tactic_detection_engine |-> "heuristic_lexicon_v1",
     results |-> [p \in 1..Len(text_list) |->
                     IF InvalidText(text_list[p])
                     THEN TacticInvalid(text_list[p])
                     ELSE TacticDetection(text_list[p], seed)]]

\* te.get_emotion(text): the scores of the five emotions, in hundredths, or an
\* exception; text2emotion is a library outside this repository
NoEmotions == <<>>

EmotionScores(happy, sad) ==
    [Happy |-> happy, Angry |-> 0, Surprise |-> 0, Sad |-> sad, Fear |-> 0]

GetEmotionOutcomes ==
    {[raised |-> FALSE, scores |-> EmotionScores(50, 0)],
     [raised |-> TRUE, scores |-> NoEmotions]}

EMOTION_ERROR == "Error during emotion analysis"

\* get_emotion[p]: what te.get_emotion does for the p-th text
analyze_emotions_with_text2emotion(text_list, get_emotion) ==
    [emotion_analysis_engine |-> "text2emotion",
     results |-> [p \in 1..Len(text_list) |->
                     IF InvalidText(text_list[p])
                     THEN [text |-> text_list[p], emotions |-> NoEmotions,
                           error |-> INVALID_TEXT_ERROR]
                     ELSE IF get_emotion[p].raised
                     THEN [text |-> text_list[p], emotions |-> NoEmotions,
                           error |-> EMOTION_ERROR]
                     ELSE [text |-> text_list[p], emotions |-> get_emotion[p].scores]]]

\* the lists of utterances analysed
Utterances ==
    {None, <<>>, Chars(" \t"),
     Chars("ok"),
     Chars("our expert is honest"),
     Chars("You idiot, IDIOT!"),
     Chars("You owe me, either you agree or you don't"),
     Chars("stupid idiot, you owe me: no middle ground, you are crazy")}

TextLists == SeqsUpTo(Utterances, MaxTexts)

HashSeeds == 0..MaxHashSeed

-----------------------------------------------------------------------------
(* run_full_analysis (tasks.py).  A table of the database is the sequence  *)
(* of its rows for the file: empty, or the one row.  conversation is the   *)
(* object of the task's session; a commit writes it to the table.          *)

TASK_ID == "task-1"

\* a NULL column
NULL == "NULL"

Row(status, celery_task_id) == [status |-> status, celery_task_id |-> celery_task_id]

\* f"...: {detail}"
Msg(prefix, detail) == <<prefix, detail>>

NO_TEXT_ERROR == <<"No text content found for analysis.">>
EMOTION_ISSUE == <<"Emotion analysis issue.">>
PERSUASION_ISSUE == <<"Persuasion analysis issue.">>
TACTIC_ISSUE == <<"Tactic detection issue.">>

\* results_payload[section] = value
SetSection(payload, section, value) == (section :> value) @@ payload

\* the check made on what an analyzer returned:
\* r.get("error") or (r.get("results") and r["results"][0].get("error"))
AnalyzerIssue(r) ==
    \/ "error" \in DOMAIN r
    \/ Len(r.results) > 0 /\ "error" \in DOMAIN r.results[1]

\* lines 90-93
SpeakerStatistics(payload, errors, stats) ==
    [results_payload |-> SetSection(payload, "speaker_statistics", stats),
     errors_list |->
         IF "error" \in DOMAIN stats
         THEN Append(errors, Msg("Speaker statistics error: ", stats.error))
         ELSE errors]

\* lines 166-169
InfluenceGraph(payload, errors, influence_graph_data) ==
    [results_payload |-> SetSection(payload, "influence_graph", influence_graph_data),
     errors_list |->
         IF "error" \in DOMAIN influence_graph_data
         THEN Append(errors, Msg("Influence graph error: ", influence_graph_data.error))
         ELSE errors]

\* the error marker left in the emotion section only
TextSectionsErrorEmotionOnly(payload, err_msg) ==
    SetSection(payload, "emotion_analysis", [error |-> err_msg])

\* the three sections all set to the same error marker
TextSectionsError(payload, err_msg) ==
    SetSection(SetSection(SetSection(payload,
        "emotion_analysis", [error |-> err_msg]),
        "persuasion_analysis", [error |-> err_msg]),
        "tactic_detection", [error |-> err_msg])

\* a text part that gives up when the speaker statistics failed
TextAnalysisAfterSpeakers(payload, errors, texts_to_analyze, get_emotion, seed) ==
    IF "error" \in DOMAIN payload.speaker_statistics
    THEN [results_payload |->
              TextSectionsError(payload, Msg("Speaker statistics error: ",
                                             payload.speaker_statistics.error)),
          errors_list |-> errors]
    ELSE [results_payload |-> TextSectionsError(payload, NO_TEXT_ERROR),
          errors_list |-> Append(errors, NO_TEXT_ERROR)]

\* lines 95-156: what the text part of the pipeline leaves in results_payload
\* and errors_list
TextAnalysis(payload, errors, texts_to_analyze, get_emotion, seed) ==
    IF "error" \in DOMAIN texts_to_analyze
    THEN LET err_msg == Msg("Text extraction error: ", texts_to_analyze.error)
         IN  [results_payload |-> TextSectionsError(payload, err_msg),
              errors_list |-> Append(errors, err_msg)]
    ELSE IF texts_to_analyze.list = <<>>
    THEN [results_payload |-> TextSectionsError(payload, NO_TEXT_ERROR),
          errors_list |-> Append(errors, NO_TEXT_ERROR)]
    ELSE LET text_list == texts_to_analyze.list
             emotion_results == analyze_emotions_with_text2emotion(text_list, get_emotion)
             persuasion_scores == calculate_persuasion_scores_heuristic(text_list, seed)
             tactic_detection_results ==
                 detect_fallacies_and_manipulation_heuristic(text_list, seed)
         IN  [results_payload |->
                  SetSection(SetSection(SetSection(payload,
                      "emotion_analysis", emotion_results),
                      "persuasion_analysis", persuasion_scores),
                      "tactic_detection", tactic_detection_results),
              errors_list |->
                  errors
                  \o (IF AnalyzerIssue(emotion_results) THEN <<EMOTION_ISSUE>> ELSE <<>>)
                  \o (IF AnalyzerIssue(persuasion_scores) THEN <<PERSUASION_ISSUE>> ELSE <<>>)
                  \o (IF AnalyzerIssue(tactic_detection_results)
                      THEN <<TACTIC_ISSUE>> ELSE <<>>)]

\* the status that ignores the errors
FinalStatusAlwaysCompleted(errors) == "COMPLETED"

\* lines 173-179
FinalStatus(errors) == IF errors # <<>> THEN "COMPLETED_WITH_ERRORS" ELSE "COMPLETED"

TaskFinalStatusForCeleryResult(errors) ==
    IF errors # <<>> THEN "COMPLETED_WITH_ERRORS" ELSE "SUCCESS"

FinalDataForDb(payload, errors) ==
    [task_status_reported |-> TaskFinalStatusForCeleryResult(errors),
     results |-> payload,
     errors |-> errors]

\* the files given to the task
TaskFiles ==
    {TxtFile(<<Chars("A: hi\n"), Chars("B: yo\n"), Chars("A: our expert is honest")>>),
     TxtFile(<<Chars("hello\n"), Chars("ok")>>),
     TxtFile(<<Chars("12:")>>),
     TxtFile(<<>>),
     JsonFile(JList(<<JDict([speaker |-> JStr(Chars("X")), text |-> JStr(Chars("hi"))]),
                      JDict([speaker |-> JStr(Chars("Y")), text |-> JStr(Chars("yo"))])>>)),
     JsonFile(JList(<<JDict([text |-> JStr(Chars("You idiot, IDIOT!"))])>>)),
     JsonFile(JList(<<JDict(<<>>)>>)),
     JsonFile(JDict([speaker |-> JStr(Chars("X"))])),
     BadJsonFile,
     OtherFile}

\* the rows the task may find: none, or the conversation as the upload or
\* the analysis request left it
InitialConversations ==
    {<<>>, <<Row("UPLOADED", NULL)>>, <<Row("PENDING_ANALYSIS", TASK_ID)>>,
     <<Row("FAILED", "task-0")>>}

----------------------------------------------------------------------------
(* The task endpoints (routes/analysis_routes.py).  The table conversations *)
(* holds at most the row of the file FILE_ID.                               *)

FILE_ID == "file-1"

FINAL_STATUSES == {"COMPLETED", "COMPLETED_WITH_ERRORS", "FAILED"}

\* the statuses in which an analysis is not started again without force
BUSY_STATUSES == {"PROCESSING", "PENDING_ANALYSIS", "COMPLETED", "COMPLETED_WITH_ERRORS"}

\* ".." in file_id or "/" in file_id
InvalidFileId(file_id) ==
    \/ \E p \in 1..(Len(file_id) - 1) : SubSeq(file_id, p, p + 1) = ".."
    \/ \E p \in 1..Len(file_id) : SubSeq(file_id, p, p) = "/"

\* Conversation.query.filter_by(file_id=file_id).first()
ConversationByFileId(table, file_id) == IF file_id = FILE_ID THEN table ELSE <<>>

\* Conversation.query.filter_by(celery_task_id=task_id).first()
ConversationByTaskId(table, task_id) ==
    IF table # <<>> /\ table[1].celery_task_id = task_id THEN table ELSE <<>>

\* task.id of run_full_analysis.delay(): an id no task had before
NewTaskId(sent) == "task-" \o ToString(Len(sent) + 1)

\* (mutant) the task id is recorded and the status is left as it was
AnalysisRequestedStatusKept(row, task_id) == Row(row.status, task_id)

\* conversation.celery_task_id = task.id; conversation.status = "PENDING_ANALYSIS"
AnalysisRequested(row, task_id) == Row("PENDING_ANALYSIS", task_id)

\* conversation.status is a str (models.py, line 23): conversation.status.value
\* raises
ATTRIBUTE_ERROR == "AttributeError: 'str' object has no attribute 'value'"

Abort(code) == [status |-> code]

\* an exception no handler catches: the response of app.errorhandler(500)
InternalServerError(exception) == [status |-> 500, exception |-> exception]

NoLocals == [conversation |-> <<>>, task |-> NULL]

\* the report run_full_analysis stores for a file (tasks.py, lines 90-187)
StoredReport(f, get_emotion, seed) ==
    LET speakers == SpeakerStatistics(<<>>, <<>>, extract_speaker_statistics(f))
        text == TextAnalysis(speakers.results_payload, speakers.errors_list,
                             extract_text_from_file(f), get_emotion, seed)
        graph == InfluenceGraph(text.results_payload, text.errors_list,
                                calculate_interaction_frequency(f))
    IN  FinalDataForDb(graph.results_payload, graph.errors_list)

\* reports of earlier analyses: one without errors, one with
StoredReports ==
    {StoredReport(TxtFile(<<Chars("A: hi\n")>>),
                  <<[raised |-> FALSE, scores |-> EmotionScores(50, 0)]>>, 0),
     StoredReport(TxtFile(<<>>), <<>>, 0)}

\* what uploads, analysis requests and runs of the task before the first
\* request have left in the two tables
ApiTables ==
    {[conversations |-> <<>>, analysis_results |-> <<>>]}
    \cup {[conversations |-> <<Row(status, "task-0")>>, analysis_results |-> <<>>] :
             status \in {"PENDING_ANALYSIS", "PROCESSING", "FAILED"}}
    \cup {[conversations |-> <<Row("UPLOADED", NULL)>>, analysis_results |-> <<>>]}
    \cup {[conversations |-> <<Row(FinalStatus(report.errors), "task-0")>>,
           analysis_results |-> <<[data |-> report]>>] : report \in StoredReports}

StartRequests ==
    {[op |-> "start_analysis_task", file_id |-> file_id, force |-> force] :
        file_id \in {FILE_ID, "file-2", "../file-1"}, force \in BOOLEAN}

ResultRequests ==
    {[op |-> "get_task_result", task_id |-> task_id] :
        task_id \in {"task-0", "task-1", "task-9"}}

----------------------------------------------------------------------------
(* The state of each part while another part is checked.                   *)

Pending == [done |-> FALSE, ret |-> None]

LineIdle  == line = <<>> /\ line_speaker = Pending
FileIdle  == speaker_stats = Pending /\ texts = Pending
GraphIdle ==
    /\ graph_pc = "start"
    /\ graph_todo = <<>>
    /\ graph_walk = EmptyWalk
    /\ graph_ret = Pending
InfluenceIdle == conversation_data = <<>> /\ influence = Pending
AnalyzerIdle ==
    /\ text_content_list = <<>>
    /\ hash_seed = 0
    /\ emotion_ret = Pending
    /\ persuasion_rets = <<>>
    /\ tactic_rets = <<>>
TaskIdle ==
    /\ task_pc = "start"
    /\ file_exists = TRUE
    /\ db_conversation = <<>>
    /\ db_analysis_result = <<>>
    /\ conversation = <<>>
    /\ results_payload = <<>>
    /\ errors_list = <<>>
    /\ task_ret = Pending

ApiIdle ==
    /\ api_pc = "idle"
    /\ api_count = 0
    /\ api_request = [op |-> "none"]
    /\ api_local = NoLocals
    /\ api_response = Abort(0)
    /\ celery_sent = <<>>

ConcIdle == engine_calls = <<>> /\ handlers = <<>>

----------------------------------------------------------------------------
(* SpecLine: get_speaker_from_line_txt on one line.                        *)

LineInit ==
    /\ line \in Lines
    /\ line_speaker = Pending
    /\ file = OtherFile
    /\ FileIdle
    /\ GraphIdle
    /\ InfluenceIdle
    /\ AnalyzerIdle
    /\ TaskIdle
    /\ ApiIdle
    /\ ConcIdle

GetSpeakerFromLineTxt ==
    /\ ~line_speaker.done
    /\ line_speaker' = [done |-> TRUE, ret |-> get_speaker_from_line_txt(line)]
    /\ UNCHANGED <<line, file, fileVars, graphVars, influenceVars, analyzerVars, taskVars>>
    /\ UNCHANGED <<apiVars, concVars>>

SpecLine == LineInit /\ [][GetSpeakerFromLineTxt]_vars

----------------------------------------------------------------------------
(* SpecFile: speaker statistics and text extraction of one file.           *)

FileInit ==
    /\ file \in Files
    /\ FileIdle
    /\ LineIdle
    /\ GraphIdle
    /\ InfluenceIdle
    /\ AnalyzerIdle
    /\ TaskIdle
    /\ ApiIdle
    /\ ConcIdle

ExtractSpeakerStatistics ==
    /\ ~speaker_stats.done
    /\ speaker_stats' = [done |-> TRUE, ret |-> extract_speaker_statistics(file)]
    /\ UNCHANGED <<file, texts, lineVars, graphVars>>
    /\ UNCHANGED <<influenceVars, analyzerVars, taskVars>>
    /\ UNCHANGED <<apiVars, concVars>>

ExtractTextFromFile ==
    /\ ~texts.done
    /\ texts' = [done |-> TRUE, ret |-> extract_text_from_file(file)]
    /\ UNCHANGED <<file, speaker_stats, lineVars, graphVars>>
    /\ UNCHANGED <<influenceVars, analyzerVars, taskVars>>
    /\ UNCHANGED <<apiVars, concVars>>

FileNext == ExtractSpeakerStatistics \/ ExtractTextFromFile

SpecFile == FileInit /\ [][FileNext]_vars

----------------------------------------------------------------------------
(* SpecGraph: calculate_interaction_frequency, one turn at a time.         *)

GraphInit ==
    /\ file \in Files
    /\ GraphIdle
    /\ LineIdle
    /\ FileIdle
    /\ InfluenceIdle
    /\ AnalyzerIdle
    /\ TaskIdle
    /\ ApiIdle
    /\ ConcIdle

\* open the file and find what to walk; an exception ends the call
GraphOpen ==
    /\ graph_pc = "start"
    /\ IF GraphRaises(file)
       THEN /\ graph_pc' = "done"
            /\ graph_ret' = [done |-> TRUE, ret |-> [error |-> GRAPH_ERROR]]
            /\ UNCHANGED graph_todo
       ELSE /\ graph_pc' = "walk"
            /\ graph_todo' = GraphSource(file)
            /\ UNCHANGED graph_ret
    /\ UNCHANGED <<file, graph_walk, lineVars, fileVars>>
    /\ UNCHANGED <<influenceVars, analyzerVars, taskVars>>
    /\ UNCHANGED <<apiVars, concVars>>

\* one pass of the loop
GraphTurn ==
    /\ graph_pc = "walk"
    /\ graph_todo # <<>>
    /\ graph_walk' = WalkStep(graph_walk, CurrentSpeaker(file, Head(graph_todo)))
    /\ graph_todo' = Tail(graph_todo)
    /\ UNCHANGED <<file, graph_pc, graph_ret, lineVars, fileVars>>
    /\ UNCHANGED <<influenceVars, analyzerVars, taskVars>>
    /\ UNCHANGED <<apiVars, concVars>>

GraphReturn ==
    /\ graph_pc = "walk"
    /\ graph_todo = <<>>
    /\ graph_pc' = "done"
    /\ graph_ret' = [done |-> TRUE, ret |-> GraphResult(graph_walk)]
    /\ UNCHANGED <<file, graph_todo, graph_walk, lineVars, fileVars>>
    /\ UNCHANGED <<influenceVars, analyzerVars, taskVars>>
    /\ UNCHANGED <<apiVars, concVars>>

GraphNext == GraphOpen \/ GraphTurn \/ GraphReturn

SpecGraph == GraphInit /\ [][GraphNext]_vars

-----------------------------------------------------------------------------
(* SpecInfluence: _calculate_influence_scores on one conversation.         *)

InfluenceInit ==
    /\ conversation_data \in Conversations
    /\ influence = Pending
    /\ LineIdle
    /\ file = OtherFile
    /\ FileIdle
    /\ GraphIdle
    /\ AnalyzerIdle
    /\ TaskIdle
    /\ ApiIdle
    /\ ConcIdle

CalculateInfluenceScores ==
    /\ ~influence.done
    /\ \E rounding \in [InfluenceSpeakers -> Roundings] :
          influence' = [done |-> TRUE,
                        ret |-> calculate_influence_scores(conversation_data, rounding)]
    /\ UNCHANGED <<conversation_data, lineVars, file, fileVars, graphVars>>
    /\ UNCHANGED <<analyzerVars, taskVars>>
    /\ UNCHANGED <<apiVars, concVars>>

SpecInfluence == InfluenceInit /\ [][CalculateInfluenceScores]_vars

-----------------------------------------------------------------------------
(* SpecAnalyzers: a caller of the analyzers on one list of utterances.  It *)
(* calls the two detectors one after the other, twice, and then the        *)
(* emotion analyzer; the calls share no state, so their order is           *)
(* immaterial.  The worker process may be replaced between the two rounds. *)

AnalyzersInit ==
    /\ text_content_list \in TextLists
    /\ hash_seed \in HashSeeds
    /\ emotion_ret = Pending
    /\ persuasion_rets = <<>>
    /\ tactic_rets = <<>>
    /\ LineIdle
    /\ file = OtherFile
    /\ FileIdle
    /\ GraphIdle
    /\ InfluenceIdle
    /\ TaskIdle
    /\ ApiIdle
    /\ ConcIdle

CalculatePersuasionScores ==
    /\ Len(persuasion_rets) < 2
    /\ Len(persuasion_rets) = Len(tactic_rets)
    /\ persuasion_rets' =
          Append(persuasion_rets,
                 calculate_persuasion_scores_heuristic(text_content_list, hash_seed))
    /\ UNCHANGED <<text_content_list, hash_seed, emotion_ret, tactic_rets>>
    /\ UNCHANGED <<lineVars, file, fileVars, graphVars, influenceVars, taskVars>>
    /\ UNCHANGED <<apiVars, concVars>>

DetectFallaciesAndManipulation ==
    /\ Len(tactic_rets) < Len(persuasion_rets)
    /\ tactic_rets' =
          Append(tactic_rets,
                 detect_fallacies_and_manipulation_heuristic(text_content_list, hash_seed))
    /\ UNCHANGED <<text_content_list, hash_seed, emotion_ret, persuasion_rets>>
    /\ UNCHANGED <<lineVars, file, fileVars, graphVars, influenceVars, taskVars>>
    /\ UNCHANGED <<apiVars, concVars>>

\* a new worker process takes over, with its own hash randomisation
WorkerRestart ==
    /\ Len(persuasion_rets) = 1
    /\ Len(tactic_rets) = 1
    /\ \E seed \in HashSeeds \ {hash_seed} : hash_seed' = seed
    /\ UNCHANGED <<text_content_list, emotion_ret, persuasion_rets, tactic_rets>>
    /\ UNCHANGED <<lineVars, file, fileVars, graphVars, influenceVars, taskVars>>
    /\ UNCHANGED <<apiVars, concVars>>

AnalyzeEmotions ==
    /\ ~emotion_ret.done
    /\ Len(tactic_rets) = 2
    /\ \E get_emotion \in [1..Len(text_content_list) -> GetEmotionOutcomes] :
          emotion_ret' =
             [done |-> TRUE,
              ret |-> analyze_emotions_with_text2emotion(text_content_list, get_emotion)]
    /\ UNCHANGED <<text_content_list, hash_seed, persuasion_rets, tactic_rets>>
    /\ UNCHANGED <<lineVars, file, fileVars, graphVars, influenceVars, taskVars>>
    /\ UNCHANGED <<apiVars, concVars>>

AnalyzersNext ==
    \/ CalculatePersuasionScores
    \/ DetectFallaciesAndManipulation
    \/ WorkerRestart
    \/ AnalyzeEmotions

SpecAnalyzers == AnalyzersInit /\ [][AnalyzersNext]_vars

-----------------------------------------------------------------------------
(* SpecTask: one execution of run_full_analysis, from one database commit  *)
(* or pipeline step to the next.  A commit may fail; te.get_emotion may    *)
(* raise.                                                                  *)

TaskInit ==
    /\ \/ file \in TaskFiles /\ file_exists = TRUE
       \/ file = OtherFile /\ file_exists = FALSE
    /\ hash_seed \in HashSeeds
    /\ db_conversation \in InitialConversations
    /\ db_analysis_result = <<>>
    /\ task_pc = "start"
    /\ conversation = <<>>
    /\ results_payload = <<>>
    /\ errors_list = <<>>
    /\ task_ret = Pending
    /\ text_content_list = <<>>
    /\ emotion_ret = Pending
    /\ persuasion_rets = <<>>
    /\ tactic_rets = <<>>
    /\ LineIdle
    /\ FileIdle
    /\ GraphIdle
    /\ InfluenceIdle
    /\ ApiIdle
    /\ ConcIdle

Return(value) == [done |-> TRUE, ret |-> value]

\* lines 25-40
TaskLookup ==
    /\ task_pc = "start"
    /\ IF db_conversation = <<>>
       THEN /\ task_ret' = Return([error |-> "Conversation record not found",
                                   status |-> "FAILURE_DB_ERROR"])
            /\ task_pc' = "done"
            /\ UNCHANGED conversation
       ELSE /\ conversation' = db_conversation
            /\ task_pc' = "mark"
            /\ UNCHANGED task_ret
    /\ UNCHANGED <<file_exists, db_conversation, db_analysis_result, results_payload, errors_list>>
    /\ UNCHANGED <<lineVars, file, fileVars, graphVars, influenceVars, analyzerVars>>
    /\ UNCHANGED <<apiVars, concVars>>

\* lines 42-57
TaskMarkProcessing ==
    /\ task_pc = "mark"
    /\ \/ /\ conversation' = <<Row("PROCESSING", TASK_ID)>>
          /\ db_conversation' = <<Row("PROCESSING", TASK_ID)>>
          /\ task_pc' = "check_file"
          /\ UNCHANGED task_ret
       \/ /\ conversation' = db_conversation
          /\ task_ret' = Return([error |-> "DB error", status |-> "FAILURE_DB_ERROR"])
          /\ task_pc' = "done"
          /\ UNCHANGED db_conversation
    /\ UNCHANGED <<file_exists, db_analysis_result, results_payload, errors_list>>
    /\ UNCHANGED <<lineVars, file, fileVars, graphVars, influenceVars, analyzerVars>>
    /\ UNCHANGED <<apiVars, concVars>>

\* lines 59-81; the commit of line 64 is not guarded: its exception leaves
\* the task
TaskCheckFile ==
    /\ task_pc = "check_file"
    /\ \/ /\ file_exists
          /\ task_pc' = "speaker_statistics"
          /\ UNCHANGED <<conversation, db_conversation, task_ret>>
       \/ /\ ~file_exists
          /\ conversation' = <<[conversation[1] EXCEPT !.status = "FAILED"]>>
          /\ db_conversation' = <<[db_conversation[1] EXCEPT !.status = "FAILED"]>>
          /\ task_ret' = Return([error |-> "File not found",
                                 status |-> "FAILURE_FILE_NOT_FOUND"])
          /\ task_pc' = "done"
       \/ /\ ~file_exists
          /\ conversation' = <<[conversation[1] EXCEPT !.status = "FAILED"]>>
          /\ task_ret' = Return([exception |-> "db.session.commit"])
          /\ task_pc' = "done"
          /\ UNCHANGED db_conversation
    /\ UNCHANGED <<file_exists, db_analysis_result, results_payload, errors_list>>
    /\ UNCHANGED <<lineVars, file, fileVars, graphVars, influenceVars, analyzerVars>>
    /\ UNCHANGED <<apiVars, concVars>>

\* lines 90-93
TaskSpeakerStatistics ==
    /\ task_pc = "speaker_statistics"
    /\ LET step == SpeakerStatistics(results_payload, errors_list,
                                     extract_speaker_statistics(file))
       IN  /\ results_payload' = step.results_payload
           /\ errors_list' = step.errors_list
    /\ task_pc' = "text_analysis"
    /\ UNCHANGED <<file_exists, db_conversation, db_analysis_result, conversation, task_ret>>
    /\ UNCHANGED <<lineVars, file, fileVars, graphVars, influenceVars, analyzerVars>>
    /\ UNCHANGED <<apiVars, concVars>>

\* lines 95-156
TaskTextAnalysis ==
    /\ task_pc = "text_analysis"
    /\ LET texts_to_analyze == extract_text_from_file(file)
           count == IF "error" \in DOMAIN texts_to_analyze THEN 0 ELSE Len(texts_to_analyze.list)
       IN  \E get_emotion \in [1..count -> GetEmotionOutcomes] :
              LET step == TextAnalysis(results_payload, errors_list, texts_to_analyze,
                                       get_emotion, hash_seed)
              IN  /\ results_payload' = step.results_payload
                  /\ errors_list' = step.errors_list
    /\ task_pc' = "influence_graph"
    /\ UNCHANGED <<file_exists, db_conversation, db_analysis_result, conversation, task_ret>>
    /\ UNCHANGED <<lineVars, file, fileVars, graphVars, influenceVars, analyzerVars>>
    /\ UNCHANGED <<apiVars, concVars>>

\* lines 166-169
TaskInfluenceGraph ==
    /\ task_pc = "influence_graph"
    /\ LET step == InfluenceGraph(results_payload, errors_list,
                                  calculate_interaction_frequency(file))
       IN  /\ results_payload' = step.results_payload
           /\ errors_list' = step.errors_list
    /\ task_pc' = "final_status"
    /\ UNCHANGED <<file_exists, db_conversation, db_analysis_result, conversation, task_ret>>
    /\ UNCHANGED <<lineVars, file, fileVars, graphVars, influenceVars, analyzerVars>>
    /\ UNCHANGED <<apiVars, concVars>>

\* lines 172-201
TaskDetermineStatus ==
    /\ task_pc = "final_status"
    /\ conversation' = <<[conversation[1] EXCEPT !.status = FinalStatus(errors_list)]>>
    /\ task_pc' = "save"
    /\ UNCHANGED <<file_exists, db_conversation, db_analysis_result, results_payload,
                   errors_list, task_ret>>
    /\ UNCHANGED <<lineVars, file, fileVars, graphVars, influenceVars, analyzerVars>>
    /\ UNCHANGED <<apiVars, concVars>>

\* lines 203-235: the commit of the status and of the result; when it fails,
\* the commit of the status FAILED, which may fail too
TaskSaveResults ==
    /\ task_pc = "save"
    /\ \/ /\ db_conversation' =
                <<[db_conversation[1] EXCEPT !.status = conversation[1].status]>>
          /\ db_analysis_result' =
                <<[data |-> FinalDataForDb(results_payload, errors_list)]>>
          /\ task_ret' = Return([status |-> TaskFinalStatusForCeleryResult(errors_list),
                                 errors_count |-> Len(errors_list)])
          /\ UNCHANGED conversation
       \/ /\ conversation' = <<[db_conversation[1] EXCEPT !.status = "FAILED"]>>
          /\ db_conversation' = <<[db_conversation[1] EXCEPT !.status = "FAILED"]>>
          /\ task_ret' = Return([error |-> "DB error saving results",
                                 status |-> "FAILURE_DB_SAVE_RESULT"])
          /\ UNCHANGED db_analysis_result
       \/ /\ conversation' = db_conversation
          /\ task_ret' = Return([error |-> "DB error saving results",
                                 status |-> "FAILURE_DB_SAVE_RESULT"])
          /\ UNCHANGED <<db_conversation, db_analysis_result>>
    /\ task_pc' = "done"
    /\ UNCHANGED <<file_exists, results_payload, errors_list>>
    /\ UNCHANGED <<lineVars, file, fileVars, graphVars, influenceVars, analyzerVars>>
    /\ UNCHANGED <<apiVars, concVars>>

TaskNext ==
    \/ TaskLookup
    \/ TaskMarkProcessing
    \/ TaskCheckFile
    \/ TaskSpeakerStatistics
    \/ TaskTextAnalysis
    \/ TaskInfluenceGraph
    \/ TaskDetermineStatus
    \/ TaskSaveResults

SpecTask == TaskInit /\ [][TaskNext]_vars

----------------------------------------------------------------------------
(* SpecTaskFair: the worker runs the task it has started to its return:    *)
(* run_full_analysis has no loop of its own and waits for nothing but the  *)
(* database and the file system, whose calls return or raise.  Every step  *)
(* of TaskNext moves task_pc and one is possible wherever task_pc is not   *)
(* "done", so the weak fairness of TaskNext is stated on task_pc.          *)

TASK_STEPS ==
    {"start", "mark", "check_file", "speaker_statistics", "text_analysis",
     "influence_graph", "final_status", "save", "done"}

\* the worker leaves the statement it is at
TaskProceeds == task_pc # "done" /\ task_pc' \in TASK_STEPS \ {task_pc}

SpecTaskFair == TaskInit /\ [][TaskNext]_vars /\ WF_task_pc(TaskProceeds)

----------------------------------------------------------------------------
(* SpecApi: requests to POST /api/analyze/<file_id> and to                 *)
(* GET /api/analysis_result/<task_id>, handled one after the other, each   *)
(* from one access to the database or to the broker to the next.  A commit *)
(* may fail.                                                               *)

ApiInit ==
    /\ \E tables \in ApiTables :
          /\ db_conversation = tables.conversations
          /\ db_analysis_result = tables.analysis_results
    /\ ApiIdle
    /\ ConcIdle
    /\ task_pc = "start"
    /\ file_exists = TRUE
    /\ conversation = <<>>
    /\ results_payload = <<>>
    /\ errors_list = <<>>
    /\ task_ret = Pending
    /\ file = OtherFile
    /\ LineIdle
    /\ FileIdle
    /\ GraphIdle
    /\ InfluenceIdle
    /\ AnalyzerIdle

\* lines 239-262
StartAnalysisLookup ==
    /\ api_pc = "idle"
    /\ api_count < MaxRequests
    /\ \E req \in StartRequests :
          LET found == ConversationByFileId(db_conversation, req.file_id)
          IN  /\ api_request' = req
              /\ IF InvalidFileId(req.file_id)
                 THEN /\ api_response' = Abort(400)
                      /\ api_local' = NoLocals
                      /\ api_pc' = "idle"
                 ELSE IF found = <<>>
                 THEN /\ api_response' = Abort(404)
                      /\ api_local' = NoLocals
                      /\ api_pc' = "idle"
                 ELSE IF found[1].status \in BUSY_STATUSES /\ ~req.force
                 THEN /\ api_response' = Abort(409)
                      /\ api_local' = [conversation |-> found, task |-> NULL]
                      /\ api_pc' = "idle"
                 ELSE /\ api_local' = [conversation |-> found, task |-> NULL]
                      /\ api_pc' = "delay"
                      /\ UNCHANGED api_response
    /\ api_count' = api_count + 1
    /\ UNCHANGED <<celery_sent, taskVars>>
    /\ UNCHANGED <<lineVars, file, fileVars, graphVars, influenceVars, analyzerVars>>
    /\ UNCHANGED concVars

\* line 264
StartAnalysisDelay ==
    /\ api_pc = "delay"
    /\ celery_sent' = Append(celery_sent, [id |-> NewTaskId(celery_sent),
                                           file_id |-> api_request.file_id])
    /\ api_local' = [api_local EXCEPT !.task = NewTaskId(celery_sent)]
    /\ api_pc' = "commit"
    /\ UNCHANGED <<api_count, api_request, api_response, taskVars>>
    /\ UNCHANGED <<lineVars, file, fileVars, graphVars, influenceVars, analyzerVars>>
    /\ UNCHANGED concVars

\* lines 265-292
StartAnalysisCommit ==
    /\ api_pc = "commit"
    /\ \/ /\ db_conversation' =
                <<AnalysisRequested(api_local.conversation[1], api_local.task)>>
          /\ api_response' = [status |-> 202, task_id |-> api_local.task,
                              file_id |-> api_request.file_id]
       \/ /\ api_response' = Abort(500)
          /\ UNCHANGED db_conversation
    /\ api_pc' = "idle"
    /\ UNCHANGED <<api_count, api_request, api_local, celery_sent>>
    /\ UNCHANGED <<task_pc, file_exists, db_analysis_result, conversation, results_payload,
                   errors_list, task_ret>>
    /\ UNCHANGED <<lineVars, file, fileVars, graphVars, influenceVars, analyzerVars>>
    /\ UNCHANGED concVars

\* lines 337-358
GetTaskResultLookup ==
    /\ api_pc = "idle"
    /\ api_count < MaxRequests
    /\ \E req \in ResultRequests :
          LET found == ConversationByTaskId(db_conversation, req.task_id)
          IN  /\ api_request' = req
              /\ api_local' = [conversation |-> found, task |-> NULL]
              /\ IF found = <<>>
                 THEN /\ api_response' = Abort(404)
                      /\ api_pc' = "idle"
                 ELSE IF found[1].status \notin FINAL_STATUSES
                 THEN /\ api_response' = InternalServerError(ATTRIBUTE_ERROR)
                      /\ api_pc' = "idle"
                 ELSE /\ api_pc' = "result_record"
                      /\ UNCHANGED api_response
    /\ api_count' = api_count + 1
    /\ UNCHANGED <<celery_sent, taskVars>>
    /\ UNCHANGED <<lineVars, file, fileVars, graphVars, influenceVars, analyzerVars>>
    /\ UNCHANGED concVars

\* lines 360-376
GetTaskResultRecord ==
    /\ api_pc = "result_record"
    /\ api_response' = IF db_analysis_result = <<>> THEN Abort(404)
                       ELSE InternalServerError(ATTRIBUTE_ERROR)
    /\ api_pc' = "idle"
    /\ UNCHANGED <<api_count, api_request, api_local, celery_sent, taskVars>>
    /\ UNCHANGED <<lineVars, file, fileVars, graphVars, influenceVars, analyzerVars>>
    /\ UNCHANGED concVars

ApiNext ==
    \/ StartAnalysisLookup
    \/ StartAnalysisDelay
    \/ StartAnalysisCommit
    \/ GetTaskResultLookup
    \/ GetTaskResultRecord

SpecApi == ApiInit /\ [][ApiNext]_vars

----------------------------------------------------------------------------
(* SpecReentrant: the callers of one process call the two detectors side   *)
(* by side, on the same or on different lists of utterances.  A call owns  *)
(* its list results; the lexicons are module constants that no statement   *)
(* of the two functions assigns.  A step is one pass of the loop over the  *)
(* utterances.                                                             *)

ENGINE_FUNCTIONS ==
    {"calculate_persuasion_scores_heuristic", "detect_fallacies_and_manipulation_heuristic"}

EngineTexts ==
    {None,
     Chars("our expert is honest"),
     Chars("stupid idiot, you owe me: no middle ground, you are crazy")}

EngineTextLists == SeqsUpTo(EngineTexts, MaxTexts)

ReentrantInit ==
    /\ engine_calls = <<>>
    /\ handlers = <<>>
    /\ hash_seed \in HashSeeds
    /\ text_content_list = <<>>
    /\ emotion_ret = Pending
    /\ persuasion_rets = <<>>
    /\ tactic_rets = <<>>
    /\ LineIdle
    /\ file = OtherFile
    /\ FileIdle
    /\ GraphIdle
    /\ InfluenceIdle
    /\ TaskIdle
    /\ ApiIdle

\* a pass that indexes the utterances by a cursor all the calls share
SharedCursor(call, seed) ==
    LET passes == Max({Len(engine_calls[c].results) : c \in 1..Len(engine_calls)})
        text == call.text_content_list[Min({passes + 1, Len(call.text_content_list)})]
    IN  IF call.function = "calculate_persuasion_scores_heuristic"
        THEN IF InvalidText(text) THEN PersuasionInvalid(text)
             ELSE PersuasionScores(text, seed)
        ELSE IF InvalidText(text) THEN TacticInvalid(text)
             ELSE TacticDetection(text, seed)

\* one pass of "for text in text_content_list": the record appended to results
LoopPass(call, seed) ==
    LET text == call.text_content_list[Len(call.results) + 1]
    IN  IF call.function = "calculate_persuasion_scores_heuristic"
        THEN IF InvalidText(text) THEN PersuasionInvalid(text)
             ELSE PersuasionScores(text, seed)
        ELSE IF InvalidText(text) THEN TacticInvalid(text)
             ELSE TacticDetection(text, seed)

\* the return statement of the call
EngineReturnValue(call) ==
    IF call.function = "calculate_persuasion_scores_heuristic"
    THEN [persuasion_analysis_engine |-> "heuristic_lexicon_v1", results |-> call.results]
    ELSE [tactic_detection_engine |-> "heuristic_lexicon_v1", results |-> call.results]

\* a caller enters one of the functions: results = []
EngineCall ==
    /\ Len(engine_calls) < MaxCalls
    /\ \E function \in ENGINE_FUNCTIONS, text_list \in EngineTextLists :
          engine_calls' = Append(engine_calls,
                                 [function |-> function, text_content_list |-> text_list,
                                  results |-> <<>>, ret |-> Pending])
    /\ UNCHANGED <<handlers, lineVars, file, fileVars, graphVars, influenceVars>>
    /\ UNCHANGED <<analyzerVars, taskVars, apiVars>>

EngineLoopPass ==
    /\ \E c \in 1..Len(engine_calls) :
          /\ ~engine_calls[c].ret.done
          /\ Len(engine_calls[c].results) < Len(engine_calls[c].text_content_list)
          /\ engine_calls' =
                [engine_calls EXCEPT
                    ![c].results = Append(@, LoopPass(engine_calls[c], hash_seed))]
    /\ UNCHANGED <<handlers, lineVars, file, fileVars, graphVars, influenceVars>>
    /\ UNCHANGED <<analyzerVars, taskVars, apiVars>>

EngineReturn ==
    /\ \E c \in 1..Len(engine_calls) :
          /\ ~engine_calls[c].ret.done
          /\ Len(engine_calls[c].results) = Len(engine_calls[c].text_content_list)
          /\ engine_calls' =
                [engine_calls EXCEPT ![c].ret = Return(EngineReturnValue(engine_calls[c]))]
    /\ UNCHANGED <<handlers, lineVars, file, fileVars, graphVars, influenceVars>>
    /\ UNCHANGED <<analyzerVars, taskVars, apiVars>>

ReentrantNext == EngineCall \/ EngineLoopPass \/ EngineReturn

SpecReentrant == ReentrantInit /\ [][ReentrantNext]_vars

----------------------------------------------------------------------------
(* SpecRequests: MaxHandlers requests to POST /api/analyze/<file_id> are   *)
(* handled side by side, each from one access to the database or to the    *)
(* broker to the next, while the worker runs the task of the first message *)
(* sent, whose id is TASK_ID.  The handlers and the worker have a session  *)
(* each; a commit writes the columns whose value differs from the value    *)
(* the session loaded.                                                     *)

NoRequest == [op |-> "none"]

HandlerIdle ==
    [pc |-> "idle", request |-> NoRequest, conversation |-> <<>>, task |-> NULL,
     response |-> Abort(0)]

\* the file of FILE_ID in the upload folder
RequestFiles == {TxtFile(<<Chars("A: hi\n")>>)}

\* the row of the file before the first request: as the upload left it, or
\* as a failed analysis did
RequestTables == {<<Row("UPLOADED", NULL)>>, <<Row("FAILED", "task-0")>>}

\* the requests for the file
FileRequests == {req \in StartRequests : req.file_id = FILE_ID}

RequestsInit ==
    /\ handlers = [h \in 1..MaxHandlers |-> HandlerIdle]
    /\ engine_calls = <<>>
    /\ db_conversation \in RequestTables
    /\ db_analysis_result = <<>>
    /\ celery_sent = <<>>
    /\ \/ file \in RequestFiles /\ file_exists = TRUE
       \/ file = OtherFile /\ file_exists = FALSE
    /\ hash_seed = 0
    /\ task_pc = "start"
    /\ conversation = <<>>
    /\ results_payload = <<>>
    /\ errors_list = <<>>
    /\ task_ret = Pending
    /\ text_content_list = <<>>
    /\ emotion_ret = Pending
    /\ persuasion_rets = <<>>
    /\ tactic_rets = <<>>
    /\ api_pc = "idle"
    /\ api_count = 0
    /\ api_request = NoRequest
    /\ api_local = NoLocals
    /\ api_response = Abort(0)
    /\ LineIdle
    /\ FileIdle
    /\ GraphIdle
    /\ InfluenceIdle

\* the commit of line 267: the UPDATE of the columns the handler has changed
CommitAnalysisRequested(table, loaded, task_id) ==
    LET assigned == AnalysisRequested(loaded, task_id)
    IN  <<[status |-> IF assigned.status # loaded.status
                      THEN assigned.status ELSE table[1].status,
           celery_task_id |-> IF assigned.celery_task_id # loaded.celery_task_id
                              THEN assigned.celery_task_id ELSE table[1].celery_task_id]>>

\* lines 239-262
HandlerLookup(h) ==
    /\ handlers[h].pc = "idle"
    /\ \E req \in FileRequests :
          LET found == ConversationByFileId(db_conversation, req.file_id)
          IN  handlers' =
                 [handlers EXCEPT ![h] =
                     IF InvalidFileId(req.file_id)
                     THEN [HandlerIdle EXCEPT !.pc = "answered", !.request = req,
                                              !.response = Abort(400)]
                     ELSE IF found = <<>>
                     THEN [HandlerIdle EXCEPT !.pc = "answered", !.request = req,
                                              !.response = Abort(404)]
                     ELSE IF found[1].status \in BUSY_STATUSES /\ ~req.force
                     THEN [HandlerIdle EXCEPT !.pc = "answered", !.request = req,
                                              !.conversation = found,
                                              !.response = Abort(409)]
                     ELSE [HandlerIdle EXCEPT !.pc = "delay", !.request = req,
                                              !.conversation = found]]
    /\ UNCHANGED <<engine_calls, lineVars, file, fileVars, graphVars, influenceVars>>
    /\ UNCHANGED <<analyzerVars, taskVars, apiVars>>

\* line 264
HandlerDelay(h) ==
    /\ handlers[h].pc = "delay"
    /\ celery_sent' = Append(celery_sent, [id |-> NewTaskId(celery_sent),
                                           file_id |-> handlers[h].request.file_id])
    /\ handlers' = [handlers EXCEPT ![h].task = NewTaskId(celery_sent), ![h].pc = "commit"]
    /\ UNCHANGED <<api_pc, api_count, api_request, api_local, api_response>>
    /\ UNCHANGED <<engine_calls, lineVars, file, fileVars, graphVars, influenceVars>>
    /\ UNCHANGED <<analyzerVars, taskVars>>

\* lines 265-292
HandlerCommit(h) ==
    /\ handlers[h].pc = "commit"
    /\ \/ /\ db_conversation' =
                CommitAnalysisRequested(db_conversation, handlers[h].conversation[1],
                                        handlers[h].task)
          /\ handlers' =
                [handlers EXCEPT
                    ![h].pc = "answered",
                    ![h].response = [status |-> 202, task_id |-> handlers[h].task,
                                     file_id |-> handlers[h].request.file_id]]
       \/ /\ handlers' = [handlers EXCEPT ![h].pc = "answered", ![h].response = Abort(500)]
          /\ UNCHANGED db_conversation
    /\ UNCHANGED <<task_pc, file_exists, db_analysis_result, conversation, results_payload,
                   errors_list, task_ret>>
    /\ UNCHANGED <<engine_calls, lineVars, file, fileVars, graphVars, influenceVars>>
    /\ UNCHANGED <<analyzerVars, apiVars>>

\* the worker takes the first message and runs its task
WorkerRunsTask == celery_sent # <<>> /\ TaskNext

RequestsNext ==
    \/ \E h \in 1..MaxHandlers : HandlerLookup(h)
    \/ \E h \in 1..MaxHandlers : HandlerDelay(h)
    \/ \E h \in 1..MaxHandlers : HandlerCommit(h)
    \/ WorkerRunsTask

SpecRequests == RequestsInit /\ [][RequestsNext]_vars

----------------------------------------------------------------------------
(* Claims                                                                  *)

\* the elements of a sequence
Range(xs) == {xs[p] : p \in 1..Len(xs)}

\* the sum of the values of a dict of numbers
RECURSIVE SumValues(_)
SumValues(d) ==
    IF DOMAIN d = {} THEN 0
    ELSE LET key == CHOOSE k \in DOMAIN d : TRUE
         IN  d[key] + SumValues([k \in DOMAIN d \ {key} |-> d[k]])

\* C1: the interaction graph has no self-loop: no link, counted so far or
\* returned, has source = target, whatever the file.
C1_NoSelfLoop ==
    /\ \A key \in DOMAIN graph_walk.interactions : key[1] # key[2]
    /\ (graph_ret.done /\ "links" \in DOMAIN graph_ret.ret)
          => \A link \in graph_ret.ret.links : link.source # link.target

\* a graph with a link was returned for a file in which a speaker took two
\* turns in a row
C1_Witness ==
    /\ graph_ret.done
    /\ "links" \in DOMAIN graph_ret.ret
    /\ graph_ret.ret.links # {}
    /\ \E p \in 1..(Len(GraphSource(file)) - 1) :
          /\ Truthy(CurrentSpeaker(file, GraphSource(file)[p]))
          /\ CurrentSpeaker(file, GraphSource(file)[p])
                = CurrentSpeaker(file, GraphSource(file)[p + 1])

\* a line "Name: text": a name of word characters, spaces, dots and hyphens,
\* a colon, a space and a text, with or without the line end
NameTextForm(ln) ==
    LET colon == Find(ln, ":") IN
    /\ colon >= 2
    /\ AllIn(ln, 1, colon - 1, WordChars \cup {" ", ".", "-"})
    /\ Strip(SubSeq(ln, 1, colon - 1)) # <<>>
    /\ colon + 1 <= Len(ln)
    /\ ln[colon + 1] = " "
    /\ Strip(SubSeq(ln, colon + 1, Len(ln))) # <<>>

NameTextFile(f) ==
    /\ f.ext = "txt"
    /\ f.lines # <<>>
    /\ \A p \in 1..Len(f.lines) : NameTextForm(f.lines[p])

\* C3: for a non-empty .txt file of lines "Name: text", speaker statistics
\* returns no error, the counts per speaker sum to total_messages,
\* speakers_found is the set of keys of message_count_per_speaker, and
\* total_messages is the number of non-blank lines with a resolvable speaker
\* (here every line).
C3_TxtStatsConsistent ==
    (speaker_stats.done /\ NameTextFile(file)) =>
        LET stats == speaker_stats.ret IN
        /\ "error" \notin DOMAIN stats
        /\ SumValues(stats.message_count_per_speaker) = stats.total_messages
        /\ Range(stats.speakers_found) = DOMAIN stats.message_count_per_speaker
        /\ Len(stats.speakers_found) = Cardinality(Range(stats.speakers_found))
        /\ stats.total_messages =
              Cardinality({p \in 1..Len(file.lines) :
                              /\ Strip(file.lines[p]) # <<>>
                              /\ Truthy(get_speaker_from_line_txt(file.lines[p]))})
        /\ stats.total_messages = Len(file.lines)

\* the statistics of a file of three lines "Name: text" by two speakers
C3_Witness ==
    /\ speaker_stats.done
    /\ NameTextFile(file)
    /\ Len(file.lines) = 3
    /\ "error" \notin DOMAIN speaker_stats.ret
    /\ Len(speaker_stats.ret.speakers_found) = 2

\* what stands before the first colon of a line, stripped
ColonPrefix(ln) == Strip(SubSeq(ln, 1, Find(ln, ":") - 1))

\* C4: get_speaker_from_line_txt never accepts a purely numeric prefix as a
\* speaker: "12: some text" yields no speaker, "Dr. Smith: some text" yields
\* "Dr. Smith".
C4_NumericPrefixRejected ==
    line_speaker.done =>
        /\ (Find(line, ":") # 0 /\ IsDigit(ColonPrefix(line)))
              => ~Truthy(line_speaker.ret)
        /\ line = NumericLine => line_speaker.ret = None
        /\ line = DrSmithLine
              => line_speaker.ret = <<"D", "r", ".", " ", "S", "m", "i", "t", "h">>

\* a JSON array of records {"speaker": X, "text": T}
IsSpeakerTextRecord(item) ==
    TypeOf(item) = "dict" /\ DOMAIN ValOf(item) = {"speaker", "text"}

SpeakerTextArray(f) ==
    /\ f.ext = "json"
    /\ f.valid
    /\ TypeOf(f.doc) = "list"
    /\ ValOf(f.doc) # <<>>
    /\ \A p \in 1..Len(ValOf(f.doc)) : IsSpeakerTextRecord(ValOf(f.doc)[p])

\* the speaker found for each element of the array, as a JSON value
ArraySpeakers(f) ==
    [p \in 1..Len(ValOf(f.doc)) |->
        LET speaker == get_speaker_from_json_item(ValOf(f.doc)[p])
        IN  IF speaker = None THEN JNull ELSE JStr(speaker)]

\* C7 as stated: normalizing a JSON array of records {"speaker": X,
\* "text": T} yields, element by element and in order, exactly X and T.
C7_RoundTripAnyRecord ==
    (texts.done /\ SpeakerTextArray(file)) =>
        /\ "list" \in DOMAIN texts.ret
        /\ [p \in 1..Len(texts.ret.list) |-> JStr(texts.ret.list[p])]
              = [p \in 1..Len(ValOf(file.doc)) |-> Item(ValOf(file.doc)[p], "text")]
        /\ ArraySpeakers(file)
              = [p \in 1..Len(ValOf(file.doc)) |-> Item(ValOf(file.doc)[p], "speaker")]

\* a str that strip() leaves as it is, and not empty
IsTrimmed(x) == TypeOf(x) = "str" /\ ValOf(x) # <<>> /\ Strip(ValOf(x)) = ValOf(x)

\* the text a record {"speaker": X, "text": T} contributes: T trimmed, when
\* T is a str that is not blank
RECURSIVE TrimmedTexts(_)
TrimmedTexts(ms) ==
    IF ms = <<>> THEN <<>>
    ELSE LET T == Item(Head(ms), "text")
         IN  IF TypeOf(T) = "str" /\ Strip(ValOf(T)) # <<>>
             THEN <<Strip(ValOf(T))>> \o TrimmedTexts(Tail(ms))
             ELSE TrimmedTexts(Tail(ms))

\* C7, amended: when every X is a non-empty str and every T a non-empty str
\* without leading or trailing whitespace, the array yields exactly X and T,
\* element by element and in order; in general it yields the texts trimmed,
\* in order, without the records whose T is blank or no str, and a speaker
\* for every record whose X is true, converted to str.
C7_RoundTripTrimmed ==
    (texts.done /\ SpeakerTextArray(file)) =>
        LET ms == ValOf(file.doc) IN
        /\ "list" \in DOMAIN texts.ret
        /\ texts.ret.list = TrimmedTexts(ms)
        /\ \A p \in 1..Len(ms) :
              ArraySpeakers(file)[p] =
                 IF JTruthy(Item(ms[p], "speaker"))
                 THEN JStr(JToStr(Item(ms[p], "speaker")))
                 ELSE JNull
        /\ (\A p \in 1..Len(ms) : /\ IsTrimmed(Item(ms[p], "speaker"))
                                  /\ IsTrimmed(Item(ms[p], "text")))
              => /\ texts.ret.list = [p \in 1..Len(ms) |-> ValOf(Item(ms[p], "text"))]
                 /\ ArraySpeakers(file) = [p \in 1..Len(ms) |-> Item(ms[p], "speaker")]

\* the texts of an array of two records with different, trimmed texts
C7_Witness ==
    /\ texts.done
    /\ SpeakerTextArray(file)
    /\ Len(ValOf(file.doc)) = 2
    /\ \A p \in 1..2 : /\ IsTrimmed(Item(ValOf(file.doc)[p], "speaker"))
                       /\ IsTrimmed(Item(ValOf(file.doc)[p], "text"))
    /\ Item(ValOf(file.doc)[1], "text") # Item(ValOf(file.doc)[2], "text")
    /\ "list" \in DOMAIN texts.ret
    /\ Len(texts.ret.list) = 2

\* the messages of a speaker in a conversation, in order
MessagesOf(speaker, messages_in) ==
    LET own == SelectSeq(messages_in, LAMBDA msg : msg.speaker = speaker)
    IN  [p \in 1..Len(own) |-> own[p].message]

\* C2: every record returned by _calculate_influence_scores has
\* 0 <= score <= 1, the score being min(raw / (message_count * 0.5), 1.0), or 0
\* for a speaker without messages; every speaker of the conversation has a record.
C2_InfluenceScoreInUnitRange ==
    influence.done =>
        /\ \A msg \in Range(conversation_data) :
              \E r \in Range(influence.ret) : r.speaker = msg.speaker
        /\ \A r \in Range(influence.ret) :
              LET messages == MessagesOf(r.speaker, conversation_data)
                  raw == RawScore(messages)
                  max_possible == Len(messages) * MAX_PER_MESSAGE
              IN  /\ r.score.den > 0
                  /\ r.score.num > 0 \/ (r.score.num = 0 /\ r.score.rounding >= 0)
                  /\ r.score.num < r.score.den
                        \/ (r.score.num = r.score.den /\ r.score.rounding <= 0)
                  /\ r.message_count = Len(messages)
                  /\ IF Len(messages) = 0
                     THEN r.score.num = 0
                     ELSE r.score.num * max_possible
                             = Min({raw, max_possible}) * r.score.den

\* scores were returned for a conversation in which one speaker's raw score is
\* above the most expected of its messages, and another's is strictly between
C2_Witness ==
    /\ influence.done
    /\ \E r \in Range(influence.ret) :
          /\ RawScore(MessagesOf(r.speaker, conversation_data)) > r.message_count * MAX_PER_MESSAGE
          /\ r.score.num = r.score.den
    /\ \E r \in Range(influence.ret) : 0 < r.score.num /\ r.score.num < r.score.den

\* an utterance that is a str, empty or made of whitespace only
BlankUtterance(u) == u # None /\ \A p \in 1..Len(u) : u[p] \in Whitespace

\* results has one record per utterance, in order
OneRecordPerUtterance(results) ==
    /\ Len(results) = Len(text_content_list)
    /\ \A p \in 1..Len(results) : results[p].text = text_content_list[p]

\* C5: each analyzer returns one record per utterance, in input order, and
\* the record of an empty or whitespace-only utterance carries an error
\* marker and zero/empty score fields; the call returns (it does not raise)
\* and the utterances after a blank one are still analysed.
C5_OneRecordPerUtterance ==
    /\ emotion_ret.done =>
          /\ OneRecordPerUtterance(emotion_ret.ret.results)
          /\ \A p \in 1..Len(text_content_list) :
                BlankUtterance(text_content_list[p]) =>
                   /\ "error" \in DOMAIN emotion_ret.ret.results[p]
                   /\ DOMAIN emotion_ret.ret.results[p].emotions = {}
    /\ \A run \in 1..Len(persuasion_rets) :
          /\ OneRecordPerUtterance(persuasion_rets[run].results)
          /\ \A p \in 1..Len(text_content_list) :
                BlankUtterance(text_content_list[p]) =>
                   LET r == persuasion_rets[run].results[p]
                   IN  /\ "error" \in DOMAIN r
                       /\ r.ethos_score = 0 /\ r.pathos_score = 0 /\ r.logos_score = 0
                       /\ r.ethos_matches = <<>>
                       /\ r.pathos_matches = <<>>
                       /\ r.logos_matches = <<>>
    /\ \A run \in 1..Len(tactic_rets) :
          /\ OneRecordPerUtterance(tactic_rets[run].results)
          /\ \A p \in 1..Len(text_content_list) :
                BlankUtterance(text_content_list[p]) =>
                   LET r == tactic_rets[run].results[p]
                   IN  /\ "error" \in DOMAIN r
                       /\ r.detected_fallacies = <<>>
                       /\ r.detected_manipulations = <<>>

\* the three analyzers have returned for a list whose first utterance is
\* whitespace only and whose second one was analysed and scored
C5_Witness ==
    /\ emotion_ret.done
    /\ Len(persuasion_rets) > 0
    /\ Len(tactic_rets) > 0
    /\ Len(text_content_list) = 2
    /\ IsSpace(text_content_list[1])
    /\ "error" \in DOMAIN emotion_ret.ret.results[1]
    /\ "error" \notin DOMAIN emotion_ret.ret.results[2]
    /\ "error" \in DOMAIN persuasion_rets[1].results[1]
    /\ persuasion_rets[1].results[2].ethos_score > 0
    /\ "error" \in DOMAIN tactic_rets[1].results[1]
    /\ "error" \notin DOMAIN tactic_rets[1].results[2]

\* the matches of a lexicon in a text, each once, in order of first occurrence
InOrderOfFirstOccurrence(patterns, text) == Unique(LexiconMatches(patterns, text))

\* C6: the persuasion and fallacy/manipulation detectors are deterministic:
\* two calls on the same utterances return the same categories and the same
\* match lists, and the matched terms are listed in order of first occurrence.
C6_DetectorsDeterministic ==
    /\ Len(persuasion_rets) = 2 => persuasion_rets[1] = persuasion_rets[2]
    /\ Len(tactic_rets) = 2 => tactic_rets[1] = tactic_rets[2]
    /\ \A run \in 1..Len(persuasion_rets) :
          \A p \in 1..Len(text_content_list) :
             ~InvalidText(text_content_list[p]) =>
                LET r == persuasion_rets[run].results[p]
                    text == text_content_list[p]
                IN  /\ r.ethos_matches = InOrderOfFirstOccurrence(ethos_patterns, text)
                    /\ r.pathos_matches = InOrderOfFirstOccurrence(pathos_patterns, text)
                    /\ r.logos_matches = InOrderOfFirstOccurrence(logos_patterns, text)

\* the five sections of a report
SECTIONS ==
    {"speaker_statistics", "emotion_analysis", "persuasion_analysis", "tactic_detection",
     "influence_graph"}

\* the pipeline of run_full_analysis has run to its end (line 170)
PipelineFinished == task_pc \in {"final_status", "save", "done"} /\ DOMAIN results_payload # {}

\* run_full_analysis returned the dict of lines 226-235
ReturnedReport ==
    /\ task_ret.done
    /\ "status" \in DOMAIN task_ret.ret
    /\ task_ret.ret.status \in {"SUCCESS", "COMPLETED_WITH_ERRORS"}

\* C8: when run_full_analysis finishes its pipeline, the final status is
\* COMPLETED_WITH_ERRORS if and only if the errors list of the run is not
\* empty, and COMPLETED otherwise: this is the status set on the conversation
\* before the results are saved, and the status the database holds, with the
\* status reported in the saved data and in the return value, once the task
\* has returned its report.
C8_FinalStatusFromErrors ==
    /\ task_pc = "save" =>
          /\ conversation[1].status = "COMPLETED_WITH_ERRORS" <=> errors_list # <<>>
          /\ conversation[1].status = "COMPLETED" <=> errors_list = <<>>
    /\ ReturnedReport =>
          /\ db_conversation[1].status = "COMPLETED_WITH_ERRORS" <=> errors_list # <<>>
          /\ db_conversation[1].status = "COMPLETED" <=> errors_list = <<>>
          /\ task_ret.ret.status = "COMPLETED_WITH_ERRORS" <=> errors_list # <<>>
          /\ task_ret.ret.status = "SUCCESS" <=> errors_list = <<>>
          /\ db_analysis_result[1].data.task_status_reported = task_ret.ret.status
          /\ task_ret.ret.errors_count = Len(errors_list)

\* a run with one error (no speaker in a file whose text was analysed) has
\* returned its report and left COMPLETED_WITH_ERRORS in the database
C8_Witness ==
    /\ ReturnedReport
    /\ Len(errors_list) = 1
    /\ "error" \in DOMAIN results_payload.speaker_statistics
    /\ "error" \notin DOMAIN results_payload.emotion_analysis
    /\ db_conversation[1].status = "COMPLETED_WITH_ERRORS"

\* the entry of the errors list for a failed text extraction or an empty text
\* list; <<>> when the text was extracted
TextErrMsg(texts_to_analyze) ==
    IF "error" \in DOMAIN texts_to_analyze
    THEN Msg("Text extraction error: ", texts_to_analyze.error)
    ELSE IF texts_to_analyze.list = <<>> THEN NO_TEXT_ERROR
    ELSE <<>>

\* a report has the five sections; the section of each component that failed
\* on the file holds an error marker and the errors list has its entry
StructurallyComplete(payload, errors, f) ==
    LET stats == extract_speaker_statistics(f)
        texts_to_analyze == extract_text_from_file(f)
        influence_graph_data == calculate_interaction_frequency(f)
        err_msg == TextErrMsg(texts_to_analyze)
    IN  /\ DOMAIN payload = SECTIONS
        /\ "error" \in DOMAIN stats =>
              /\ payload.speaker_statistics = [error |-> stats.error]
              /\ Msg("Speaker statistics error: ", stats.error) \in Range(errors)
        /\ err_msg # <<>> =>
              /\ payload.emotion_analysis = [error |-> err_msg]
              /\ payload.persuasion_analysis = [error |-> err_msg]
              /\ payload.tactic_detection = [error |-> err_msg]
              /\ err_msg \in Range(errors)
        /\ "error" \in DOMAIN influence_graph_data =>
              /\ payload.influence_graph = [error |-> influence_graph_data.error]
              /\ Msg("Influence graph error: ", influence_graph_data.error) \in Range(errors)
        /\ Len(errors) >= Cardinality({s \in SECTIONS : DOMAIN payload[s] = {"error"}
                                         /\ s \notin {"persuasion_analysis", "tactic_detection"}})

\* C9: every report of run_full_analysis is structurally complete: it has the
\* five sections speaker_statistics, emotion_analysis, persuasion_analysis,
\* tactic_detection and influence_graph whichever components failed, and each
\* section whose component failed (extraction error, empty text list, graph
\* error, no speakers) holds an error marker instead of data and has its entry
\* in the errors list; the report saved in the database is that report.
C9_ReportComplete ==
    /\ PipelineFinished => StructurallyComplete(results_payload, errors_list, file)
    /\ db_analysis_result # <<>> =>
          /\ StructurallyComplete(db_analysis_result[1].data.results,
                                  db_analysis_result[1].data.errors, file)
          /\ db_analysis_result[1].data.results = results_payload
          /\ db_analysis_result[1].data.errors = errors_list

\* a report was saved in which every component failed: the five sections hold
\* an error marker and the errors list has the three entries
C9_Witness ==
    /\ db_analysis_result # <<>>
    /\ \A s \in SECTIONS : DOMAIN db_analysis_result[1].data.results[s] = {"error"}
    /\ Len(db_analysis_result[1].data.errors) = 3

\* the speaker statistics found no speaker in the file
NoSpeakers(f) == extract_speaker_statistics(f) = [error |-> NO_SPEAKERS_ERROR]

\* the sections filled from the extracted text
TEXT_SECTIONS == {"emotion_analysis", "persuasion_analysis", "tactic_detection"}

\* C10: when no speaker can be identified for any message of the input, the
\* speaker statistics are an explicit error, never a successful result with
\* zero speakers, and in run_full_analysis that error is in the
\* speaker_statistics section only, with one entry in the errors list: the
\* emotion, persuasion, tactic and graph sections are still computed from the
\* input, as they are when the speakers are found: one record per extracted
\* utterance in each text section, the nodes and links of the graph.
C10_SpeakerErrorStaysInItsSection ==
    /\ PipelineFinished =>
          \/ "error" \in DOMAIN results_payload.speaker_statistics
          \/ results_payload.speaker_statistics.speakers_found # <<>>
    /\ PipelineFinished /\ NoSpeakers(file) =>
          LET texts_to_analyze == extract_text_from_file(file)
              speaker_msg == Msg("Speaker statistics error: ", NO_SPEAKERS_ERROR)
          IN  /\ results_payload.speaker_statistics = [error |-> NO_SPEAKERS_ERROR]
              /\ Cardinality({p \in 1..Len(errors_list) : errors_list[p] = speaker_msg}) = 1
              /\ \A s \in TEXT_SECTIONS :
                    IF TextErrMsg(texts_to_analyze) # <<>>
                    THEN results_payload[s] = [error |-> TextErrMsg(texts_to_analyze)]
                    ELSE /\ "error" \notin DOMAIN results_payload[s]
                         /\ Len(results_payload[s].results) = Len(texts_to_analyze.list)
              /\ TextErrMsg(texts_to_analyze) = <<>> =>
                    /\ results_payload.persuasion_analysis =
                          calculate_persuasion_scores_heuristic(texts_to_analyze.list,
                                                                hash_seed)
                    /\ results_payload.tactic_detection =
                          detect_fallacies_and_manipulation_heuristic(
                              texts_to_analyze.list, hash_seed)
              /\ results_payload.influence_graph = calculate_interaction_frequency(file)

\* the pipeline has run on a file of utterances without speakers: the speaker
\* section holds the error, the text sections hold the analysis of the
\* utterances, with the manipulation found in one of them
C10_Witness ==
    /\ PipelineFinished
    /\ NoSpeakers(file)
    /\ results_payload.speaker_statistics = [error |-> NO_SPEAKERS_ERROR]
    /\ "error" \notin DOMAIN results_payload.emotion_analysis
    /\ Len(results_payload.persuasion_analysis.results) > 0
    /\ results_payload.tactic_detection.results[1].detected_fallacies # <<>>
    /\ "error" \notin DOMAIN results_payload.influence_graph

\* the place of the first message of a speaker in the conversation
FirstMessageOf(speaker) ==
    Min({p \in 1..Len(conversation_data) : conversation_data[p].speaker = speaker})

\* C13: the list of influence records is sorted in descending order of
\* normalized score, has exactly one record per distinct speaker of the
\* conversation, and records of equal score keep the order in which their
\* speakers were first met in the conversation.
C13_SortedDescendingStable ==
    influence.done =>
        LET records == influence.ret
            speakers == {conversation_data[p].speaker : p \in 1..Len(conversation_data)}
        IN  /\ Len(records) = Cardinality(speakers)
            /\ {records[p].speaker : p \in 1..Len(records)} = speakers
            /\ \A p, q \in 1..Len(records) :
                  p < q =>
                     /\ ~ScoreLess(records[p], records[q])
                     /\ ~ScoreLess(records[q], records[p]) =>
                           FirstMessageOf(records[p].speaker)
                              < FirstMessageOf(records[q].speaker)

\* two speakers were scored the same, above zero, and the one listed first
\* is the one who spoke first, B
C13_Witness ==
    /\ influence.done
    /\ Len(influence.ret) = 2
    /\ influence.ret[1].score = influence.ret[2].score
    /\ influence.ret[1].score.num > 0
    /\ influence.ret[1].speaker = "B"
    /\ conversation_data[1].speaker = "B"

\* the categories of persuasion indicators with a pattern matching a message
MatchedCategories(message) ==
    {MatchedPatterns(message)[p].tactic : p \in 1..Len(MatchedPatterns(message))}

\* the raw score of a list of messages when a category counts once a message
RECURSIVE RawScorePerCategory(_)
RawScorePerCategory(messages) ==
    IF messages = <<>> THEN 0
    ELSE LET message == Head(messages)
         IN  PATTERN_SCORE * Cardinality(MatchedCategories(message))
             + (IF Len(message.words) > LONG_MESSAGE THEN LENGTH_SCORE ELSE 0)
             + Abs(message.polarity) * SENTIMENT_WEIGHT
             + (IF \E p \in 1..Len(message.words) : message.words[p] = "?"
                THEN QUESTION_SCORE ELSE 0)
             + RawScorePerCategory(Tail(messages))

\* C17: in the influence scorer each utterance adds +0.1 to its speaker's raw
\* score once for each category of persuasion indicators (emotional_appeal,
\* authority, logic, social_proof) with a pattern matching the utterance, so
\* at most +0.4 an utterance however many patterns of a category match, and
\* each matched tactic is at most once in the speaker's list of tactics.
C17_ScorePerCategory ==
    influence.done =>
        \A p \in 1..Len(influence.ret) :
            LET record == influence.ret[p]
                messages == MessagesOf(record.speaker, conversation_data)
            IN  /\ \A m \in 1..Len(messages) :
                      PATTERN_SCORE * Len(MatchedPatterns(messages[m])) <= 400
                /\ \E rounding \in Roundings :
                      record.score = Normalize(RawScorePerCategory(messages),
                                               Len(messages) * MAX_PER_MESSAGE, rounding)
                /\ \A i, j \in 1..Len(record.tactics) :
                      record.tactics[i] = record.tactics[j] => i = j

\* the speakers of the first n messages walked, those without a resolvable
\* speaker left out
ResolvedSpeakers(f, n) ==
    SelectTruthy([p \in 1..n |-> CurrentSpeaker(f, GraphSource(f)[p])])

\* how many times b immediately follows a in a sequence of speakers
Transitions(speakers, a, b) ==
    Cardinality({p \in 1..(Len(speakers) - 1) : speakers[p] = a /\ speakers[p + 1] = b})

\* C16: after walking any sequence of messages, the weight of each directed
\* link (a, b) is the number of times a message of speaker b immediately
\* follows, among the messages with a resolvable speaker, a message of speaker
\* a # b; messages without a resolvable speaker are skipped and do not reset
\* last_speaker; the nodes are exactly the distinct speakers met; and a link
\* (b, a) exists only if that reverse transition itself occurred.
C16_LinkWeights ==
    graph_pc \in {"walk", "done"} /\ ~GraphRaises(file) =>
        LET walked == Len(GraphSource(file)) - Len(graph_todo)
            speakers == ResolvedSpeakers(file, walked)
            met == Range(speakers)
            w == graph_walk
        IN  /\ w.speakers_in_convo = met
            /\ w.last_speaker = IF speakers = <<>> THEN None ELSE speakers[Len(speakers)]
            /\ DOMAIN w.interactions =
                  {key \in met \X met :
                      key[1] # key[2] /\ Transitions(speakers, key[1], key[2]) > 0}
            /\ \A key \in DOMAIN w.interactions :
                  w.interactions[key] = Transitions(speakers, key[1], key[2])
            /\ graph_ret.done =>
                  /\ graph_ret.ret.nodes = {[id |-> speaker] : speaker \in met}
                  /\ graph_ret.ret.links =
                        {[source |-> key[1], target |-> key[2],
                          value |-> Transitions(speakers, key[1], key[2])] :
                            key \in {k \in met \X met :
                                        k[1] # k[2] /\ Transitions(speakers, k[1], k[2]) > 0}}

\* the graph of the lines A, no speaker, B, A, B was returned: B follows A
\* twice, the first time across the line without a speaker, and A follows B
\* once
C16_Witness ==
    /\ graph_ret.done
    /\ file.ext = "txt"
    /\ Len(file.lines) = 5
    /\ get_speaker_from_line_txt(file.lines[2]) = None
    /\ get_speaker_from_line_txt(file.lines[1]) = <<"A">>
    /\ graph_ret.ret.links =
          {[source |-> <<"A">>, target |-> <<"B">>, value |-> 2],
           [source |-> <<"B">>, target |-> <<"A">>, value |-> 1]}

\* the message array of a JSON document: the root if it is an array, else the
\* value of "transcript" if it is an array, else the value at "log"."messages"
\* if it is an array, else no message
LocatedMessages(doc) ==
    IF TypeOf(doc) = "list" THEN ValOf(doc)
    ELSE IF TypeOf(doc) = "dict" /\ HasKey(doc, "transcript")
            /\ TypeOf(Item(doc, "transcript")) = "list"
    THEN ValOf(Item(doc, "transcript"))
    ELSE IF TypeOf(doc) = "dict" /\ HasKey(doc, "log")
            /\ TypeOf(Item(doc, "log")) = "dict"
            /\ HasKey(Item(doc, "log"), "messages")
            /\ TypeOf(Item(Item(doc, "log"), "messages")) = "list"
    THEN ValOf(Item(Item(doc, "log"), "messages"))
    ELSE <<>>

\* C18: for a JSON document the message sequence is located in this order:
\* the root itself if it is an array; else the value of key "transcript" if
\* it is an array; else the value at "log"."messages" if it is an array; else
\* the sequence is empty.  Speaker statistics, text extraction and the
\* interaction graph all find the same sequence in the same document.
C18_MessagesLocatedInPriorityOrder ==
    file.ext = "json" /\ file.valid =>
        LET located == [raised |-> FALSE, messages |-> LocatedMessages(file.doc)]
        IN  /\ SpeakerMessages(file) = located
            /\ TextMessages(file) = located
            /\ GraphMessages(file) = located
            /\ texts.done /\ "error" \in DOMAIN texts.ret =>
                  JsonTexts(located.messages).raised

\* the lists of a list, one after the other
RECURSIVE Flatten(_)
Flatten(xss) == IF xss = <<>> THEN <<>> ELSE Head(xss) \o Flatten(Tail(xss))

\* the first of the keys, in their order, that an element holds with a value
\* that qualifies; 0 when there is none
FirstQualifying(item, keys, Qualifies(_)) ==
    LET found == {k \in 1..Len(keys) : HasKey(item, keys[k]) /\ Qualifies(Item(item, keys[k]))}
    IN  IF TypeOf(item) # "dict" \/ found = {} THEN 0 ELSE Min(found)

NonEmpty(x) == JTruthy(x)
NonEmptyStr(x) == TypeOf(x) = "str" /\ ValOf(x) # <<>>
NonBlankStr(x) == TypeOf(x) = "str" /\ Strip(ValOf(x)) # <<>>

\* the speakers of the elements of a message array, element by element: the
\* value of the first speaker key with a non-empty value, None without one
KeySpeakers(ms) ==
    [p \in 1..Len(ms) |->
        LET k == FirstQualifying(ms[p], SpeakerKeys, NonEmpty)
        IN  IF k = 0 THEN None ELSE JToStr(Item(ms[p], SpeakerKeys[k]))]

\* the texts of the elements of a message array: for each element the value
\* of the first text key whose value qualifies, as it is or trimmed, then the
\* text of its Watson response if it has one that is not blank
KeyTexts(ms, Qualifies(_), Trimmed(_)) ==
    LET OfItem(item) ==
            LET k == FirstQualifying(item, TextKeys, Qualifies)
            IN  (IF k = 0 THEN <<>> ELSE <<Trimmed(ValOf(Item(item, TextKeys[k])))>>)
                \o (IF /\ TypeOf(item) = "dict"
                       /\ HasWatsonText(item)
                       /\ Strip(ValOf(WatsonText(item))) # <<>>
                    THEN <<Strip(ValOf(WatsonText(item)))>> ELSE <<>>)
    IN  Flatten([p \in 1..Len(ms) |-> OfItem(ms[p])])

AsItIs(s) == s

\* the text extraction returned the texts of a message array
ExtractedArray ==
    /\ file.ext = "json"
    /\ file.valid
    /\ texts.done
    /\ "list" \in DOMAIN texts.ret

\* C19 as stated: for each JSON element that is a record, the speaker is the
\* value of the first key in the order speaker, user, author, name, user_id
\* that is present with a non-empty value, and the text is the value of the
\* first key in the order text, message, line, content, utterance, msg that is
\* present with a non-empty string; a key that is present but empty (or, for
\* text, not a string) is passed over in favour of the next key, and an
\* element with no qualifying key yields no speaker / no direct text.
C19_FirstNonEmptyKey ==
    /\ ExtractedArray =>
          texts.ret.list = KeyTexts(LocatedMessages(file.doc), NonEmptyStr, AsItIs)
    /\ file.ext = "json" /\ file.valid /\ speaker_stats.done =>
          JsonSpeakers(file) = SelectTruthy(KeySpeakers(LocatedMessages(file.doc)))

\* C19, amended: the text is the value, trimmed, of the first text key that
\* is present with a string that is not blank: a key whose value is empty,
\* made of whitespace only or not a string is passed over.  The speaker is
\* the value, as a string, of the first speaker key with a non-empty value.
C19_FirstNonBlankKey ==
    /\ ExtractedArray =>
          texts.ret.list = KeyTexts(LocatedMessages(file.doc), NonBlankStr, Strip)
    /\ file.ext = "json" /\ file.valid /\ speaker_stats.done =>
          /\ JsonSpeakers(file) = SelectTruthy(KeySpeakers(LocatedMessages(file.doc)))
          /\ "error" \notin DOMAIN speaker_stats.ret =>
                speaker_stats.ret.speakers_found
                   = Unique(SelectTruthy(KeySpeakers(LocatedMessages(file.doc))))

\* the texts were extracted from an array whose first element has a blank
\* "text" and gives the value of its "msg", and whose second element has an
\* empty "speaker" and gives the value of its "message"
C19_Witness ==
    /\ ExtractedArray
    /\ speaker_stats.done
    /\ LET ms == LocatedMessages(file.doc)
       IN  /\ Len(ms) = 2
           /\ FirstQualifying(ms[1], TextKeys, NonEmptyStr) = 1
           /\ FirstQualifying(ms[1], TextKeys, NonBlankStr) = 6
           /\ FirstQualifying(ms[2], SpeakerKeys, NonEmpty) = 2
           /\ FirstQualifying(ms[2], TextKeys, NonBlankStr) = 2
    /\ texts.ret.list = <<<<"m">>, <<"m">>>>
    /\ speaker_stats.ret.speakers_found = <<<<"N">>, <<"U">>>>


----------------------------------------------------------------------------
(* C20: when the sniffer raises on a .csv file, identify_speakers_from_csv *)
(* and extract_text_from_file read it as a file with a header: what they   *)
(* return is what they return for the same lines with a header sniffed,    *)
(* and the first line gives no speaker and no utterance, so that neither   *)
(* the messages counted nor the texts are more than the lines behind it.   *)

SniffedAsHeader(f) == [f EXCEPT !.sniff = "header"]

C20_SniffFailureAssumesHeader ==
    file.ext = "csv" /\ file.sniff = "error" =>
        /\ speaker_stats.done =>
              /\ speaker_stats.ret = extract_speaker_statistics(SniffedAsHeader(file))
              /\ "error" \notin DOMAIN speaker_stats.ret =>
                    speaker_stats.ret.total_messages <= Len(DictReaderRows(file.lines))
        /\ texts.done =>
              /\ texts.ret = extract_text_from_file(SniffedAsHeader(file))
              /\ "list" \in DOMAIN texts.ret =>
                    Len(texts.ret.list) <= Len(DictReaderRows(file.lines))

\* a file on which the sniffer raised, whose first line a plain reader
\* would have counted as a speaker and as an utterance, with speakers and
\* texts in the lines behind it
C20_Witness ==
    /\ file.ext = "csv" /\ file.sniff = "error" /\ file.valid
    /\ speaker_stats.done /\ texts.done
    /\ "error" \notin DOMAIN speaker_stats.ret
    /\ "list" \in DOMAIN texts.ret /\ texts.ret.list # <<>>
    /\ Truthy(get_speaker_from_csv_row(CsvRow(file.lines[1]), NoFieldnames))
    /\ speaker_stats.ret.total_messages = Len(file.lines) - 1
    /\ Len(texts.ret.list) = Len(file.lines) - 1


----------------------------------------------------------------------------
(* C11: when the file cannot be parsed (a .json file that is no JSON, a    *)
(* file that cannot be read, a .csv file with a line the reader cannot     *)
(* read), extract_text_from_file returns the error value with its message  *)
(* and nothing else: no list of texts, whatever was collected before.      *)

StructuralFailure(f) ==
    \/ f.ext \in {"json", "csv"} /\ ~f.valid
    \/ f.ext = "csv" /\ \E p \in 1..Len(CsvLinesRead(f)) : f.lines[p] = BAD_ROW

C11_StructuralFailureIsErrorValue ==
    texts.done /\ StructuralFailure(file) =>
        /\ DOMAIN texts.ret = {"error"}
        /\ texts.ret.error = TEXT_ERROR

\* a .csv file with texts in the lines before the one that cannot be read
C11_Witness ==
    /\ texts.done
    /\ file.ext = "csv" /\ file.valid /\ StructuralFailure(file)
    /\ \E p \in 2..Len(file.lines) :
          /\ file.lines[p] = BAD_ROW
          /\ CsvTextsOf(file, SubSeq(file.lines, 1, p - 1)) # <<>>


----------------------------------------------------------------------------
(* C12: an element of the message array of a .json file whose processing   *)
(* raises is left out and the extraction goes on: the texts returned are   *)
(* those of the other elements, in the order of the array.                 *)

RECURSIVE TextsOfTheOthers(_)
TextsOfTheOthers(ms) ==
    IF ms = <<>> THEN <<>>
    ELSE (IF JsonItemTexts(Head(ms)).raised THEN <<>> ELSE JsonItemTexts(Head(ms)).texts)
         \o TextsOfTheOthers(Tail(ms))

C12_FailingElementSkipped ==
    texts.done /\ file.ext = "json" /\ file.valid /\ ~TextMessages(file).raised =>
        /\ "list" \in DOMAIN texts.ret
        /\ texts.ret.list = FinalFilter(TextsOfTheOthers(TextMessages(file).messages))


----------------------------------------------------------------------------
(* C14: a request to start the analysis of a file whose row is in status   *)
(* UPLOADED sends one run_full_analysis message for that file_id, and,     *)
(* unless its commit fails (then the answer is 500), answers 202 with the  *)
(* id of that task and leaves the row with that id and PENDING_ANALYSIS; a  *)
(* request for a file_id without row answers 404 and sends nothing.  A     *)
(* message is sent only by the one step of the handler that keeps its id.  *)

StartAnswered == api_pc = "idle" /\ api_request.op = "start_analysis_task"

MessagesOfTask(task_id) == {k \in 1..Len(celery_sent) : celery_sent[k].id = task_id}

C14_Answered ==
    StartAnswered /\ ~InvalidFileId(api_request.file_id) =>
        /\ api_local.conversation = <<Row("UPLOADED", NULL)>> =>
              /\ api_local.task # NULL
              /\ Cardinality(MessagesOfTask(api_local.task)) = 1
              /\ celery_sent[Len(celery_sent)] =
                    [id |-> api_local.task, file_id |-> api_request.file_id]
              /\ \/ /\ api_response = [status |-> 202, task_id |-> api_local.task,
                                       file_id |-> api_request.file_id]
                    /\ db_conversation = <<Row("PENDING_ANALYSIS", api_local.task)>>
                 \/ /\ api_response = Abort(500)
                    /\ db_conversation = api_local.conversation
        /\ ConversationByFileId(db_conversation, api_request.file_id) = <<>> =>
              /\ api_response = Abort(404)
              /\ api_local.task = NULL

C14_Sending ==
    celery_sent' # celery_sent =>
        /\ api_pc = "delay" /\ api_pc' = "commit"
        /\ api_local.task = NULL /\ api_local'.task # NULL
        /\ celery_sent' = Append(celery_sent, [id |-> api_local'.task,
                                               file_id |-> api_request.file_id])
        /\ MessagesOfTask(api_local'.task) = {}

----------------------------------------------------------------------------
(* C15: the result endpoint answers 200 with the stored output only when   *)
(* the status of the conversation of the task is final and a result row    *)
(* exists; while the status is not final it answers 202 without output,    *)
(* and with a final status and no result row it answers 404.               *)

ResultAnswered == api_pc = "idle" /\ api_request.op = "get_task_result"

C15_ResultOnlyWhenFinal ==
    ResultAnswered =>
        LET found == ConversationByTaskId(db_conversation, api_request.task_id)
        IN  /\ api_response.status = 200 =>
                  /\ found # <<>> /\ found[1].status \in FINAL_STATUSES
                  /\ db_analysis_result # <<>>
                  /\ api_response.analysis_output = db_analysis_result[1].data
            /\ found # <<>> /\ found[1].status \notin FINAL_STATUSES =>
                  /\ api_response.status = 202
                  /\ "analysis_output" \notin DOMAIN api_response
            /\ found # <<>> /\ found[1].status \in FINAL_STATUSES
               /\ db_analysis_result = <<>> =>
                  api_response.status = 404


----------------------------------------------------------------------------
(* C21: in a .csv file read with its header, the speaker column and the    *)
(* text column are the columns whose names come first in the two lists of  *)
(* names, whatever their places in the header: the speakers counted and    *)
(* the texts returned are the cells of those columns.                      *)

\* the field that matches the earliest name of col_names
PriorityCol(fieldnames, col_names) ==
    LET Named(n) == {k \in 1..Len(fieldnames) :
                        StrLower(fieldnames[k]) = StrLower(col_names[n])}
        listed == {n \in 1..Len(col_names) : Named(n) # {}}
    IN  IF listed = {} THEN None ELSE fieldnames[Min(Named(Min(listed)))]

\* a .csv file all of whose lines can be read, read with its header
ReadWithHeader(f) ==
    /\ f.ext = "csv" /\ f.valid /\ f.sniff # "no_header"
    /\ \A p \in 1..Len(f.lines) : f.lines[p] # BAD_ROW
    /\ HasFieldnames(DictReaderFieldnames(f.lines))

CellsOf(f, col) ==
    LET rows == DictReaderRows(f.lines)
    IN  [p \in 1..Len(rows) |-> DictGet(DictReaderFieldnames(f.lines), rows[p], col)]

C21_PriorityListDecidesColumn ==
    ReadWithHeader(file) =>
        LET fieldnames == DictReaderFieldnames(file.lines)
            speaker_col == PriorityCol(fieldnames, SPEAKER_COL_NAMES)
            text_col == PriorityCol(fieldnames, TEXT_COL_NAMES)
        IN  /\ speaker_stats.done /\ speaker_col # None =>
                  LET counts == Counter(SelectTruthy(CellsOf(file, speaker_col)))
                  IN  speaker_stats.ret = IF counts = <<>> THEN [error |-> NO_SPEAKERS_ERROR]
                                          ELSE SpeakerStats(counts)
            /\ texts.done /\ text_col # None =>
                  texts.ret = PyList(SelectSeq([p \in 1..Len(CellsOf(file, text_col)) |->
                                                  IF CellsOf(file, text_col)[p] = None THEN <<>>
                                                  ELSE Strip(CellsOf(file, text_col)[p])],
                                               LAMBDA t : t # <<>>))


----------------------------------------------------------------------------
(* C22: in a .csv file read with its header, a header without a text       *)
(* column gives no texts, and every speaker counted is a cell of a column  *)
(* whose name is in the list of speaker names.                             *)

MatchingCols(fieldnames, col_names) ==
    {k \in 1..Len(fieldnames) :
        \E n \in 1..Len(col_names) : StrLower(fieldnames[k]) = StrLower(col_names[n])}

NoTextWithoutTextColumn ==
    ReadWithHeader(file) /\ texts.done
    /\ MatchingCols(DictReaderFieldnames(file.lines), TEXT_COL_NAMES) = {} =>
        texts.ret = PyList(<<>>)

\* the cells of column k in the lines behind the header
ColumnCells(f, k) ==
    {row[k] : row \in {r \in Range(DictReaderRows(f.lines)) : k <= Len(r)}}

SpeakersFound == Range(speaker_stats.ret.speakers_found)

C22_OnlyMatchingColumns ==
    /\ NoTextWithoutTextColumn
    /\ ReadWithHeader(file) /\ speaker_stats.done /\ "error" \notin DOMAIN speaker_stats.ret =>
          \A speaker \in SpeakersFound :
             \E k \in MatchingCols(DictReaderFieldnames(file.lines), SPEAKER_COL_NAMES) :
                speaker \in ColumnCells(file, k)

(* C22, amended: a header without a text column gives no texts; a speaker  *)
(* counted is a cell of a column whose name is in the list of speaker      *)
(* names, or, when no name of the header is in that list, the stripped     *)
(* cell of the first column, shorter than 50 characters, not made of       *)
(* digits and without colon.                                               *)
C22_MatchingColumnsOrFirstColumn ==
    /\ NoTextWithoutTextColumn
    /\ ReadWithHeader(file) /\ speaker_stats.done /\ "error" \notin DOMAIN speaker_stats.ret =>
          LET fieldnames == DictReaderFieldnames(file.lines)
              matching == MatchingCols(fieldnames, SPEAKER_COL_NAMES)
          IN  \A speaker \in SpeakersFound :
                 \/ \E k \in matching : speaker \in ColumnCells(file, k)
                 \/ /\ matching = {}
                    /\ \E cell \in ColumnCells(file, 1) : speaker = Strip(cell)
                    /\ Len(speaker) < 50 /\ ~IsDigit(speaker) /\ Find(speaker, ":") = 0

\* a header with no speaker and no text column: the first column gives the
\* speakers, and there is no text
C22_Witness ==
    /\ ReadWithHeader(file) /\ speaker_stats.done /\ texts.done
    /\ MatchingCols(DictReaderFieldnames(file.lines), SPEAKER_COL_NAMES) = {}
    /\ MatchingCols(DictReaderFieldnames(file.lines), TEXT_COL_NAMES) = {}
    /\ "error" \notin DOMAIN speaker_stats.ret
    /\ Len(speaker_stats.ret.speakers_found) = 2
    /\ texts.ret = PyList(<<>>)


----------------------------------------------------------------------------
(* C23: whatever the file, no text returned by extract_text_from_file is   *)
(* empty or made of whitespace only.                                       *)

C23_NoBlankUtterance ==
    texts.done /\ "list" \in DOMAIN texts.ret =>
        \A p \in 1..Len(texts.ret.list) :
            texts.ret.list[p] # <<>> /\ Strip(texts.ret.list[p]) # <<>>

\* a .csv file with a cell of whitespace in its text column, and a text
\* returned from another line
C23_Witness ==
    /\ texts.done /\ "list" \in DOMAIN texts.ret /\ texts.ret.list # <<>>
    /\ ReadWithHeader(file)
    /\ ActualTextCol(file) # None
    /\ \E cell \in Range(CellsOf(file, ActualTextCol(file))) :
          cell # None /\ cell # <<>> /\ Strip(cell) = <<>>


----------------------------------------------------------------------------
(* C24: for an utterance, the tactic detector records each of its four     *)
(* categories at most once; a category is recorded exactly when one of its *)
(* own patterns matches, whatever the other categories do, and what is     *)
(* recorded is the match of the first of its patterns that matches.        *)

\* the patterns of a category that match the text
MatchingKeywords(patterns, text) ==
    LET lower == StrLower(text)
    IN  {k \in 1..Len(patterns) :
            \E p \in 1..Len(text) : MatchAt(text, lower, patterns[k], p)}

\* the phrases found in the text
PhrasesLower == Compile(FALSE_DICHOTOMY_PHRASES)

MatchingPhrases(text) ==
    LET text_lower == StrLower(text)
    IN  {k \in 1..Len(FALSE_DICHOTOMY_PHRASES) :
            /\ Contains(text_lower, PhrasesLower[k])
            /\ FALSE_DICHOTOMY_PHRASES[k] = EITHER_OR => EitherOrContext(text_lower)}

OfType(detected, type) == SelectSeq(detected, LAMBDA d : d.type = type)

\* the category is recorded once, with the matches of its first matching
\* keyword, or not at all when none matches
KeywordCategoryOnce(detected, type, patterns, text) ==
    LET matching == MatchingKeywords(patterns, text)
    IN  IF matching = {} THEN OfType(detected, type) = <<>>
        ELSE /\ Len(OfType(detected, type)) = 1
             /\ \A m \in Range(OfType(detected, type)[1].keywords_matched) :
                   StrLower(m) = patterns[Min(matching)]

PhraseCategoryOnce(detected, text) ==
    IF MatchingPhrases(text) = {} THEN OfType(detected, "False Dichotomy") = <<>>
    ELSE OfType(detected, "False Dichotomy") =
            <<[type |-> "False Dichotomy",
               phrase_matched |-> FALSE_DICHOTOMY_PHRASES[Min(MatchingPhrases(text))]]>>

C24_EachCategoryAtMostOnce ==
    \A c \in 1..Len(tactic_rets) :
       \A p \in 1..Len(tactic_rets[c].results) :
          LET r == tactic_rets[c].results[p]
          IN  "error" \notin DOMAIN r =>
                 /\ KeywordCategoryOnce(r.detected_fallacies, "Ad Hominem",
                                        ad_hominem_patterns, r.text)
                 /\ PhraseCategoryOnce(r.detected_fallacies, r.text)
                 /\ KeywordCategoryOnce(r.detected_manipulations, "Guilt Tripping",
                                        guilt_tripping_patterns, r.text)
                 /\ KeywordCategoryOnce(r.detected_manipulations, "Gaslighting (potential)",
                                        gaslighting_patterns, r.text)
                 /\ Len(r.detected_fallacies) <= 2
                 /\ Len(r.detected_manipulations) <= 2

\* an utterance in which two keywords of Ad Hominem match, with the four
\* categories recorded
C24_Witness ==
    \E c \in 1..Len(tactic_rets) :
       \E p \in 1..Len(tactic_rets[c].results) :
          LET r == tactic_rets[c].results[p]
          IN  /\ "error" \notin DOMAIN r
              /\ Cardinality(MatchingKeywords(ad_hominem_patterns, r.text)) > 1
              /\ Len(r.detected_fallacies) = 2
              /\ Len(r.detected_manipulations) = 2

\* the call has been entered before another call that has already returned
OverlapsAReturnedCall(c) ==
    /\ ~engine_calls[c].ret.done
    /\ \E d \in (c + 1)..Len(engine_calls) : engine_calls[d].ret.done

\* what the function returns when nothing else runs from its call to its return
RunAlone(call, seed) ==
    IF call.function = "calculate_persuasion_scores_heuristic"
    THEN calculate_persuasion_scores_heuristic(call.text_content_list, seed)
    ELSE detect_fallacies_and_manipulation_heuristic(call.text_content_list, seed)

\* C25: the engine is reentrant: whatever other calls of the detectors run
\* between the call of a detector and its return, in the same process, on the
\* same or on another list of utterances, it returns what it returns when it
\* runs alone; the lexicons are constants, which no call modifies.
C25_Reentrant ==
    \A c \in 1..Len(engine_calls) :
       engine_calls[c].ret.done =>
          engine_calls[c].ret.ret = RunAlone(engine_calls[c], hash_seed)

\* two calls on the same utterances overlapped: the second ran from its call
\* to its return, and found matches, while the first was between two passes
C25_Witness ==
    /\ Len(engine_calls) = 2
    /\ OverlapsAReturnedCall(1)
    /\ Len(engine_calls[1].results) = 1
    /\ engine_calls[1].text_content_list = engine_calls[2].text_content_list
    /\ Len(engine_calls[1].text_content_list) = 2
    /\ engine_calls[1].function # engine_calls[2].function
    /\ \E p \in 1..2 : "error" \notin DOMAIN engine_calls[2].ret.ret.results[p]

\* the speakers_found of the speaker statistics of the file, as a set: none
\* when the statistics are the error of a file without speakers
StatisticsSpeakers(f) ==
    LET stats == extract_speaker_statistics(f)
    IN  IF "error" \in DOMAIN stats THEN {} ELSE Range(stats.speakers_found)

\* C26: for the same file, of any format and on any parsing path, a .csv file
\* on which the sniffer raises included, the nodes of the graph that
\* calculate_interaction_frequency returns are the speakers_found of
\* extract_speaker_statistics.
C26_NodesAreSpeakersFound ==
    /\ graph_ret.done
    /\ "error" \notin DOMAIN graph_ret.ret
    /\ file.ext \in {"txt", "json", "csv"}
    => {node.id : node \in graph_ret.ret.nodes} = StatisticsSpeakers(file)

\* a record of the results list of the section carries an error marker
MarkedRecord(section) ==
    /\ "results" \in DOMAIN section
    /\ \E p \in 1..Len(section.results) : "error" \in DOMAIN section.results[p]

\* the entry of the errors list for each of the sections
ISSUE_OF ==
    [emotion_analysis |-> EMOTION_ISSUE, persuasion_analysis |-> PERSUASION_ISSUE,
     tactic_detection |-> TACTIC_ISSUE]

\* C29: an error marker on any record of the results list of the emotion, the
\* persuasion or the tactic section, at whatever position, adds the entry of
\* the section to the errors list, and the status COMPLETED is committed only
\* for a report in which no record of these sections carries an error marker.
C29_ErrorMarkerAnywhereCounts ==
    /\ PipelineFinished =>
          \A s \in TEXT_SECTIONS :
             MarkedRecord(results_payload[s]) => ISSUE_OF[s] \in Range(errors_list)
    /\ /\ task_ret.done
       /\ db_analysis_result # <<>>
       /\ db_conversation[1].status = "COMPLETED"
       => \A s \in TEXT_SECTIONS : ~MarkedRecord(db_analysis_result[1].data.results[s])

\* run_full_analysis has found the record of the conversation (line 25)
RecordFound == task_pc = "mark"

\* run_full_analysis is over and the committed row has a final status
ReturnedInFinalStatus ==
    /\ task_pc = "done"
    /\ db_conversation # <<>>
    /\ db_conversation[1].status \in FINAL_STATUSES

\* C28: every execution of run_full_analysis that finds the record of the
\* conversation ends, and leaves the conversation in one of the statuses
\* COMPLETED, COMPLETED_WITH_ERRORS and FAILED, even when the file is missing
\* or a commit fails; and it leaves COMPLETED or COMPLETED_WITH_ERRORS only
\* with the result record saved.
C28_EndsInFinalStatus ==
    /\ RecordFound ~> ReturnedInFinalStatus
    /\ [](/\ task_pc = "done"
          /\ db_conversation # <<>>
          /\ db_conversation[1].status \in {"COMPLETED", "COMPLETED_WITH_ERRORS"}
          => db_analysis_result # <<>>)

\* the worker has written the status of the task it runs: PROCESSING, or the
\* final status it ended with
WorkerHasWritten(table) ==
    /\ table # <<>>
    /\ table[1].celery_task_id = TASK_ID
    /\ table[1].status \in {"PROCESSING"} \cup FINAL_STATUSES

\* the commit of the request that dispatched the task of id task_id takes the
\* status back to PENDING_ANALYSIS
BackToPending(task_id) ==
    /\ db_conversation[1].status # "PENDING_ANALYSIS"
    /\ db_conversation'[1].status = "PENDING_ANALYSIS"
    /\ db_conversation'[1].celery_task_id = task_id
    /\ \E h \in 1..MaxHandlers :
          /\ handlers[h].pc = "commit"
          /\ handlers[h].task = task_id
          /\ handlers'[h].pc = "answered"

\* C27: however the steps of the handler of an analysis request and of the
\* worker that runs the task it dispatched interleave, the commit of that
\* request never takes the status of the file from PROCESSING, or from the
\* final status the task left, back to PENDING_ANALYSIS.
C27_StatusNeverMovesBack ==
    [][WorkerHasWritten(db_conversation) => ~BackToPending(TASK_ID)]_vars

\* the handler answered a request without force=true for a row it found in
\* one of the statuses in which an analysis is not started again
RefusedBusy(h) ==
    /\ handlers[h].pc = "answered"
    /\ ~handlers[h].request.force
    /\ handlers[h].conversation # <<>>
    /\ handlers[h].conversation[1].status \in BUSY_STATUSES

\* the handler has dispatched a task for a request without force=true
Dispatched(h) == handlers[h].task # NULL /\ ~handlers[h].request.force

\* C30: without force=true, however the requests for one file interleave, a
\* request that finds the file in status PENDING_ANALYSIS, PROCESSING,
\* COMPLETED or COMPLETED_WITH_ERRORS is answered 409 and dispatches no task,
\* and two requests that find the file in status UPLOADED never both dispatch
\* a task.
C30_OneDispatchPerFile ==
    /\ \A h \in 1..Len(handlers) :
          RefusedBusy(h) => handlers[h].response = Abort(409) /\ handlers[h].task = NULL
    /\ \A g, h \in 1..Len(handlers) :
          /\ g # h
          /\ Dispatched(g)
          /\ Dispatched(h)
          /\ handlers[g].conversation[1].status = "UPLOADED"
          => handlers[h].conversation[1].status # "UPLOADED"

====
